---------------------------- MODULE Spec2Model ----------------------------
(***************************************************************************)
(* A model of the Aarogya agents: the smart-watch telemetry generator      *)
(* (Agents/smartwatch_health_data_generator.py), the Supabase client it    *)
(* pushes to (Agents/supabase_client.py) and the statistics / anomaly      *)
(* detection code (Agents/analyze_health_data.py, Agents/doctor_chat.py,   *)
(* Agents/chat_health_data.py), the medical document store                 *)
(* (Agents/upload_medical_documents.py) and the chat and access loops of   *)
(* Agents/doctor_chat.py and Agents/chat_health_data.py.                   *)
(*                                                                         *)
(* Numbers: every metric value is kept in hundredths (36.1 is 3610, a      *)
(* heart rate of 60 is 6000), so that "an integer" and "one decimal place" *)
(* are properties a value can fail to have.  Time is kept in minutes.      *)
(***************************************************************************)
EXTENDS Integers, Sequences, FiniteSets, TLC

VARIABLES
    rng,        \* state of the module-global generator of `random`
    now,        \* the wall clock read by datetime.now(), in minutes
    calls,      \* number of generate_reading calls made by the test driver
    call,       \* arguments and locals of the last generate_reading call
    returned,   \* what that call returned: <<reading>>, or <<>> when it raised
    runs,       \* the generate_time_series calls made so far, with their results
    pc,             \* where main() is: "idle", "for_person", "for_reading",
                    \* "save", "done", or "crashed" on an uncaught exception
    patient_id,     \* main's argument patient_id
    push_to_supabase, \* main's argument and local push_to_supabase
    person,         \* index in people of the current iteration of the outer loop
    readings,       \* the series of the current person (the dicts, as they are now)
    pos,            \* index in readings of the next iteration of the inner loop
    all_readings,   \* main's list all_readings
    posted,         \* the post_health_reading calls made, with their outcome
    files,          \* smartwatch_data.json and smartwatch_data.csv
    df,             \* the table load_health_data returned: its columns and rows
    result,         \* the last statistics call on df and what it gave
    stats,          \* what each analyze_data_statistics(df) made so far gave
    records,        \* MedicalDocumentProcessor.records: patient id -> list of entries
    text_files,     \* the text files under storage_dir: path -> content
    registry_file,  \* document_registry.json as _save_registry last wrote it
    upload_result,  \* what the last upload_document returned
    instant,        \* the wall clock read by upload_document, in half seconds
    patient_codes,  \* doctor_chat.main: what load_patient_codes() returned
    local_df,       \* doctor_chat.main: the local CSV, none if the file is missing
    menu,           \* doctor_chat.main: where its menu loop is
    iteration,      \* doctor_chat.main: what the last menu iteration did
    chat,           \* which chat loop runs: chat_loop or doctor_chat
    chat_pc,        \* where the chat loop is
    conversation_history,   \* the list the chat loop keeps
    typed,          \* what input() gave the chat loop so far
    asked           \* the prompts the chat loop gave query_llama3 so far

genVars == <<rng, now, calls, call, returned>>

mainVars == <<pc, patient_id, push_to_supabase, person, readings, pos,
              all_readings, posted, files>>

statsVars == <<df, result, stats>>

\* the state of the generator, of main and of the statistics
programVars == <<genVars, runs, mainVars, statsVars>>

docVars == <<records, text_files, registry_file, upload_result, instant>>

\* the state of the agents other than the generator and the statistics
doctorVars == <<patient_codes, local_df, menu, iteration>>

chatVars == <<chat, chat_pc, conversation_history, typed, asked>>

agentVars == <<docVars, doctorVars, chatVars>>

vars == <<rng, now, calls, call, returned, runs, pc, patient_id,
          push_to_supabase, person, readings, pos, all_readings, posted, files,
          df, result, stats, records, text_files, registry_file,
          upload_result, instant, patient_codes, local_df, menu, iteration,
          chat, chat_pc, conversation_history, typed, asked>>

-----------------------------------------------------------------------------
(* Bounds of the model *)

\* seeds the random source may be started from: 0..MaxSeed
MaxSeed == 39
\* generate_reading calls made in one behaviour of SpecReading
MaxCalls == 1
\* the wall clock advances at most MaxClock minutes
MaxClock == 2
\* duration_minutes ranges over 0..MaxDuration
MaxDuration == 4
\* interval_minutes ranges over 0..MaxInterval
MaxInterval == 2
\* seeds given to random.seed before a series: 0..MaxSeriesSeed
MaxSeriesSeed == 1
\* rows of a table given to the statistics: 0..MaxRows
MaxRows == 2
\* analyze_data_statistics calls made on one table
MaxAnalyzeCalls == 2

-----------------------------------------------------------------------------
(* Python values *)

None == "<None>"

\* bool(x) of an optional string: None and '' are falsy
Truthy(x) == x # None /\ x # ""

\* the decimal literal whole.tenth, in hundredths
Dec(whole, tenth) == whole * 100 + tenth * 10

\* an int is a value with no fractional part
IsInteger(v) == v % 100 = 0

\* a value with at most one decimal place
HasOneDecimal(v) == v % 10 = 0

-----------------------------------------------------------------------------
(* datetime *)

\* datetime.isoformat(): the instant split into date and time-of-day fields
isoformat(t) == <<t \div 1440, (t % 1440) \div 60, t % 60>>

\* datetime.fromisoformat()
fromisoformat(iso) == iso[1] * 1440 + iso[2] * 60 + iso[3]

-----------------------------------------------------------------------------
(* The random module: a seeded, deterministic generator.  Its state is a   *)
(* number below RngModulus; every draw advances it.                        *)

RngModulus == 2^12

RngNext(s) == (1229 * s + 1013) % RngModulus

\* random.seed(s)
RandomSeed(s) == s % RngModulus

\* random.random(): a fraction val / RngModulus in [0, 1)
RandomRandom(s) == [val |-> RngNext(s), state |-> RngNext(s)]

\* random.randint(a, b): an integer of [a, b], both ends included
\* (a and b are integers given in hundredths)
RandomRandint(s, a, b) ==
    LET r == RandomRandom(s)
        n == (b - a) \div 100 + 1
    IN  [val |-> a + 100 * ((r.val * n) \div RngModulus), state |-> r.state]

\* random.uniform(a, b) = a + (b - a) * random(), as the exact fraction
\* num / RngModulus of a hundredth
RandomUniform(s, a, b) ==
    LET r == RandomRandom(s)
    IN  [num |-> a * RngModulus + (b - a) * r.val, state |-> r.state]

\* a round() that keeps two decimal places
Round1_TwoDecimals(num) == num \div RngModulus

\* round(x, 1) of the fraction x = num / den (in hundredths, den > 0): the
\* nearest tenth, a tie going to the even tenth
RoundTenth(num, den) ==
    IF 2 * (num % (10 * den)) < 10 * den THEN 10 * (num \div (10 * den))
    ELSE IF 2 * (num % (10 * den)) > 10 * den THEN 10 * (num \div (10 * den) + 1)
    ELSE IF (num \div (10 * den)) % 2 = 0 THEN 10 * (num \div (10 * den))
    ELSE 10 * (num \div (10 * den) + 1)

\* round(x, 1) of a uniform draw x = num / RngModulus hundredths
Round1(num) == RoundTenth(num, RngModulus)

-----------------------------------------------------------------------------
(* SmartWatchDataGenerator.__init__: the configuration *)

Metrics == <<"heart_rate", "spo2", "temperature", "systolic_bp",
             "diastolic_bp", "steps", "stress_level", "sleep_hours">>

MetricSet == {Metrics[i] : i \in DOMAIN Metrics}

\* a (low, high) tuple; type is the Python type of the literals written
Range(lo, hi, type) == [lo |-> lo, hi |-> hi, type |-> type]

\* normal ranges whose heart rate reaches up to 125
normal_ranges_WideHeartRate ==
    [heart_rate   |-> Range(Dec(60, 0), Dec(125, 0), "int"),
     spo2         |-> Range(Dec(95, 0), Dec(100, 0), "int"),
     temperature  |-> Range(Dec(36, 1), Dec(37, 2), "float"),
     systolic_bp  |-> Range(Dec(110, 0), Dec(130, 0), "int"),
     diastolic_bp |-> Range(Dec(70, 0), Dec(85, 0), "int"),
     steps        |-> Range(Dec(0, 0), Dec(150, 0), "int"),
     stress_level |-> Range(Dec(1, 0), Dec(5, 0), "int"),
     sleep_hours  |-> Range(Dec(6, 5), Dec(9, 0), "float")]

normal_ranges ==
    [heart_rate   |-> Range(Dec(60, 0), Dec(100, 0), "int"),
     spo2         |-> Range(Dec(95, 0), Dec(100, 0), "int"),
     temperature  |-> Range(Dec(36, 1), Dec(37, 2), "float"),
     systolic_bp  |-> Range(Dec(110, 0), Dec(130, 0), "int"),
     diastolic_bp |-> Range(Dec(70, 0), Dec(85, 0), "int"),
     steps        |-> Range(Dec(0, 0), Dec(150, 0), "int"),
     stress_level |-> Range(Dec(1, 0), Dec(5, 0), "int"),
     sleep_hours  |-> Range(Dec(6, 5), Dec(9, 0), "float")]

\* the keys of anomaly_types, in insertion order
AnomalyNames ==
    <<"high_heart_rate", "low_heart_rate", "low_oxygen", "high_temperature",
      "low_temperature", "high_bp", "low_bp", "high_stress", "poor_sleep",
      "excessive_sleep">>

AnomalySet == {AnomalyNames[i] : i \in DOMAIN AnomalyNames}

\* one entry of anomaly_types: its metric items in insertion order, and its
\* 'probability' in hundredths (0.05 is 5)
Profile(items, probability) == [items |-> items, probability |-> probability]

anomaly_types ==
    [high_heart_rate  |-> Profile(<<[metric |-> "heart_rate",
                                     range |-> Range(Dec(120, 0), Dec(180, 0), "int")]>>, 5),
     low_heart_rate   |-> Profile(<<[metric |-> "heart_rate",
                                     range |-> Range(Dec(40, 0), Dec(55, 0), "int")]>>, 3),
     low_oxygen       |-> Profile(<<[metric |-> "spo2",
                                     range |-> Range(Dec(85, 0), Dec(94, 0), "int")]>>, 4),
     high_temperature |-> Profile(<<[metric |-> "temperature",
                                     range |-> Range(Dec(37, 5), Dec(39, 5), "float")]>>, 3),
     low_temperature  |-> Profile(<<[metric |-> "temperature",
                                     range |-> Range(Dec(35, 0), Dec(36, 0), "float")]>>, 2),
     high_bp          |-> Profile(<<[metric |-> "systolic_bp",
                                     range |-> Range(Dec(140, 0), Dec(180, 0), "int")],
                                    [metric |-> "diastolic_bp",
                                     range |-> Range(Dec(90, 0), Dec(110, 0), "int")]>>, 4),
     low_bp           |-> Profile(<<[metric |-> "systolic_bp",
                                     range |-> Range(Dec(80, 0), Dec(100, 0), "int")],
                                    [metric |-> "diastolic_bp",
                                     range |-> Range(Dec(50, 0), Dec(65, 0), "int")]>>, 3),
     high_stress      |-> Profile(<<[metric |-> "stress_level",
                                     range |-> Range(Dec(7, 0), Dec(10, 0), "int")]>>, 6),
     poor_sleep       |-> Profile(<<[metric |-> "sleep_hours",
                                     range |-> Range(Dec(3, 0), Dec(5, 5), "float")]>>, 4),
     excessive_sleep  |-> Profile(<<[metric |-> "sleep_hours",
                                     range |-> Range(Dec(10, 0), Dec(12, 0), "float")]>>, 2)]

\* the metrics a profile overrides
Overridden(name) ==
    {anomaly_types[name].items[i].metric : i \in DOMAIN anomaly_types[name].items}

\* the override range a profile gives a metric it overrides
OverrideRange(name, metric) ==
    LET its == anomaly_types[name].items
    IN  its[CHOOSE i \in DOMAIN its : its[i].metric = metric].range

-----------------------------------------------------------------------------
(* SmartWatchDataGenerator._should_trigger_anomaly *)

\* random.random() < 0.15
ShouldTriggerAnomaly(s) ==
    LET r == RandomRandom(s)
    IN  [val |-> r.val * 100 < 15 * RngModulus, state |-> r.state]

(* SmartWatchDataGenerator._select_anomaly: random.choices(anomalies,      *)
(* weights)[0], which bisects the cumulative weights at random() * total   *)

RECURSIVE CumWeight(_)
CumWeight(i) ==
    IF i = 0 THEN 0
    ELSE CumWeight(i - 1) + anomaly_types[AnomalyNames[i]].probability

\* a selection that ignores the weights: random.choice(anomalies)
SelectAnomaly_Unweighted(s) ==
    LET r == RandomRandom(s)
    IN  [val |-> AnomalyNames[(r.val * Len(AnomalyNames)) \div RngModulus + 1],
         state |-> r.state]

SelectAnomaly(s) ==
    LET r     == RandomRandom(s)
        n     == Len(AnomalyNames)
        total == CumWeight(n)
        \* bisect_right(cum_weights, random() * total, 0, n - 1)
        below == {j \in 1..(n - 1) : CumWeight(j) * RngModulus <= r.val * total}
    IN  [val |-> AnomalyNames[Cardinality(below) + 1], state |-> r.state]

-----------------------------------------------------------------------------
(* SmartWatchDataGenerator.generate_reading *)

\* an override loop whose draws overshoot the upper bound by one step
RECURSIVE ApplyAnomaly_PastUpperBound(_, _, _, _)
ApplyAnomaly_PastUpperBound(data, s, items, k) ==
    IF k > Len(items) THEN [data |-> data, state |-> s]
    ELSE LET metric      == items[k].metric
             value_range == items[k].range
         IN  IF value_range.type = "int"
             THEN LET d == RandomRandint(s, value_range.lo, value_range.hi + 100)
                  IN  ApplyAnomaly_PastUpperBound([data EXCEPT ![metric] = d.val],
                                                  d.state, items, k + 1)
             ELSE LET d == RandomUniform(s, value_range.lo, value_range.hi + 10)
                  IN  ApplyAnomaly_PastUpperBound([data EXCEPT ![metric] = Round1(d.num)],
                                                  d.state, items, k + 1)

\* an override loop that stores every redrawn value under 'heart_rate' too
RECURSIVE ApplyAnomaly_StrayKey(_, _, _, _)
ApplyAnomaly_StrayKey(data, s, items, k) ==
    IF k > Len(items) THEN [data |-> data, state |-> s]
    ELSE LET metric      == items[k].metric
             value_range == items[k].range
             d == IF value_range.type = "int"
                  THEN RandomRandint(s, value_range.lo, value_range.hi)
                  ELSE LET u == RandomUniform(s, value_range.lo, value_range.hi)
                       IN  [val |-> Round1(u.num), state |-> u.state]
         IN  ApplyAnomaly_StrayKey([data EXCEPT ![metric] = d.val, !.heart_rate = d.val],
                                   d.state, items, k + 1)

\* the loop over anomaly_config.items(): each metric item, in order, is
\* redrawn from its override range, with randint when the range's first
\* literal is an int and with round(uniform, 1) otherwise
RECURSIVE ApplyAnomaly(_, _, _, _)
ApplyAnomaly(data, s, items, k) ==
    IF k > Len(items) THEN [data |-> data, state |-> s]
    ELSE LET metric      == items[k].metric
             value_range == items[k].range
         IN  IF value_range.type = "int"
             THEN LET d == RandomRandint(s, value_range.lo, value_range.hi)
                  IN  ApplyAnomaly([data EXCEPT ![metric] = d.val], d.state, items, k + 1)
             ELSE LET d == RandomUniform(s, value_range.lo, value_range.hi)
                  IN  ApplyAnomaly([data EXCEPT ![metric] = Round1(d.num)], d.state, items, k + 1)

\* the dict built from eight draws of the normal ranges, in source order
BaseReading(timestamp, s) ==
    LET hr  == RandomRandint(s, normal_ranges.heart_rate.lo, normal_ranges.heart_rate.hi)
        ox  == RandomUniform(hr.state, normal_ranges.spo2.lo, normal_ranges.spo2.hi)
        tmp == RandomUniform(ox.state, normal_ranges.temperature.lo, normal_ranges.temperature.hi)
        sys == RandomRandint(tmp.state, normal_ranges.systolic_bp.lo, normal_ranges.systolic_bp.hi)
        dia == RandomRandint(sys.state, normal_ranges.diastolic_bp.lo, normal_ranges.diastolic_bp.hi)
        stp == RandomRandint(dia.state, normal_ranges.steps.lo, normal_ranges.steps.hi)
        str == RandomRandint(stp.state, normal_ranges.stress_level.lo, normal_ranges.stress_level.hi)
        slp == RandomUniform(str.state, normal_ranges.sleep_hours.lo, normal_ranges.sleep_hours.hi)
    IN  [data  |-> [timestamp    |-> isoformat(timestamp),
                    heart_rate   |-> hr.val,
                    spo2         |-> Round1(ox.num),
                    temperature  |-> Round1(tmp.num),
                    systolic_bp  |-> sys.val,
                    diastolic_bp |-> dia.val,
                    steps        |-> stp.val,
                    stress_level |-> str.val,
                    sleep_hours  |-> Round1(slp.num)],
         state |-> slp.state]

\* a decision whose is_anomaly is the 15% trial alone, forced or not
AnomalyDecision_TrialDecides(s, force_anomaly) ==
    LET trial  == ShouldTriggerAnomaly(s)
        chosen == IF Truthy(force_anomaly)
                  THEN [val |-> force_anomaly, state |-> trial.state]
                  ELSE IF trial.val THEN SelectAnomaly(trial.state)
                  ELSE [val |-> None, state |-> trial.state]
    IN  [is_anomaly |-> trial.val, anomaly_type |-> chosen.val, state |-> chosen.state]

\* is_anomaly and anomaly_type, the two locals that decide the anomaly
AnomalyDecision(s, force_anomaly) ==
    LET \* `or` runs the 15% trial only when force_anomaly is None
        trial  == IF force_anomaly # None
                  THEN [val |-> TRUE, state |-> s]
                  ELSE ShouldTriggerAnomaly(s)
        chosen == IF Truthy(force_anomaly)
                  THEN [val |-> force_anomaly, state |-> trial.state]
                  ELSE IF trial.val THEN SelectAnomaly(trial.state)
                  ELSE [val |-> None, state |-> trial.state]
    IN  [is_anomaly |-> trial.val, anomaly_type |-> chosen.val, state |-> chosen.state]

\* lines 89-100 of generate_reading, given the decision and the base dict:
\* the profile is looked up and applied when is_anomaly and anomaly_type are
\* both truthy.  The result: raised ("none" or the exception), data (<<the
\* returned dict>>, or <<>> when it raised), the random state left behind, and
\* the locals is_anomaly and anomaly_type.
ReadingFrom(decided, base) ==
    IF decided.is_anomaly /\ Truthy(decided.anomaly_type)
    THEN IF decided.anomaly_type \notin DOMAIN anomaly_types
         THEN [raised |-> "KeyError", data |-> <<>>, state |-> base.state,
               is_anomaly |-> decided.is_anomaly,
               anomaly_type |-> decided.anomaly_type]
         ELSE [raised |-> "none",
               data |-> <<ApplyAnomaly(base.data, base.state,
                             anomaly_types[decided.anomaly_type].items, 1).data>>,
               state |-> ApplyAnomaly(base.data, base.state,
                             anomaly_types[decided.anomaly_type].items, 1).state,
               is_anomaly |-> decided.is_anomaly,
               anomaly_type |-> decided.anomaly_type]
    ELSE [raised |-> "none", data |-> <<base.data>>, state |-> base.state,
          is_anomaly |-> decided.is_anomaly, anomaly_type |-> decided.anomaly_type]

\* lines 76-100 of generate_reading, given the decision
ReadingAfter(decided, timestamp) ==
    ReadingFrom(decided, BaseReading(timestamp, decided.state))

\* generate_reading(timestamp, force_anomaly) run on random state s with the
\* clock at clock; timestamp is <<>> for None and <<t>> for a datetime
generate_reading(s, clock, timestamp, force_anomaly) ==
    ReadingAfter(AnomalyDecision(s, force_anomaly),
                 IF timestamp = <<>> THEN clock ELSE timestamp[1])

\* main() is not running
MainIdle ==
    /\ pc = "idle"
    /\ patient_id = None
    /\ push_to_supabase = FALSE
    /\ person = 0
    /\ readings = <<>>
    /\ pos = 0
    /\ all_readings = <<>>
    /\ posted = <<>>
    /\ files = [json |-> <<>>, csv |-> <<>>]

\* no table is loaded
StatsIdle ==
    /\ df = [columns |-> {}, rows |-> <<>>]
    /\ result = [op |-> "none", patient_id |-> None, raised |-> "none", value |-> <<>>]
    /\ stats = <<>>

\* no document processor is in use
DocsIdle ==
    /\ records = <<>>
    /\ text_files = <<>>
    /\ registry_file = <<>>
    /\ upload_result = <<>>
    /\ instant = 0

\* what a menu iteration of doctor_chat.main leaves: the option chosen, the
\* inputs of option 1, what the verification gave (for the local mapping:
\* what get_patient_from_code returned and the clock it read), the context
\* built and the arguments doctor_chat was called with, if it was
NoIteration ==
    [choice |-> "", access_code |-> "", use_supabase |-> FALSE,
     raised |-> "none", verified |-> FALSE, patient_id |-> None,
     code_result |-> <<>>, checked_at |-> 0, context |-> <<>>,
     consultation |-> <<>>]

\* doctor_chat.main is not running
DoctorIdle ==
    /\ patient_codes = <<>>
    /\ local_df = <<>>
    /\ menu = "idle"
    /\ iteration = NoIteration

\* no chat loop is running
ChatIdle ==
    /\ chat = None
    /\ chat_pc = "idle"
    /\ conversation_history = <<>>
    /\ typed = <<>>
    /\ asked = <<>>

\* the other agents are not running
AgentsIdle == DocsIdle /\ DoctorIdle /\ ChatIdle

-----------------------------------------------------------------------------
(* A driver of generate_reading: the random source is seeded, then         *)
(* generate_reading is called with any timestamp and any force_anomaly.    *)

Seeds == 0..MaxSeed

\* the clock starts shortly before midnight of day 0
Clock == {1438 + k : k \in 0..MaxClock}

\* force_anomaly: absent, the empty string, a configured profile, or a name
\* that is no key of anomaly_types
ForceArgs == {None, "", "fever"} \cup AnomalySet

TimestampArgs == {<<>>, <<1500>>}

NoCall == [timestamp |-> <<>>, force_anomaly |-> None, rng |-> 0, raised |-> "none",
           is_anomaly |-> FALSE, anomaly_type |-> None]

InitReading ==
    /\ rng \in {RandomSeed(s) : s \in Seeds}
    /\ now \in Clock
    /\ calls = 0
    /\ call = NoCall
    /\ returned = <<>>
    /\ runs = <<>>
    /\ MainIdle
    /\ StatsIdle
    /\ AgentsIdle

CallGenerateReading(timestamp, force_anomaly) ==
    /\ calls < MaxCalls
    /\ \E r \in {generate_reading(rng, now, timestamp, force_anomaly)} :
           /\ rng' = r.state
           /\ call' = [timestamp |-> timestamp, force_anomaly |-> force_anomaly,
                       rng |-> rng, raised |-> r.raised,
                       is_anomaly |-> r.is_anomaly, anomaly_type |-> r.anomaly_type]
           /\ returned' = r.data
    /\ calls' = calls + 1
    /\ UNCHANGED <<now, runs>>
    /\ UNCHANGED mainVars
    /\ UNCHANGED statsVars
    /\ UNCHANGED agentVars

NextReading ==
    \E timestamp \in TimestampArgs, force_anomaly \in ForceArgs :
        CallGenerateReading(timestamp, force_anomaly)

SpecReading == InitReading /\ [][NextReading]_vars

-----------------------------------------------------------------------------
(* Properties of generate_reading (checked under SpecReading) *)

InRange(v, range) == range.lo <= v /\ v <= range.hi

\* the last call returned a reading
Returned == calls > 0 /\ Len(returned) = 1

\* the profile the last call applied, None when it applied none
Applied == IF call.is_anomaly /\ Truthy(call.anomaly_type)
           THEN call.anomaly_type ELSE None

\* metric m of the returned reading was redrawn from the applied profile
IsOverridden(m) == Applied \in AnomalySet /\ m \in Overridden(Applied)

\* C1: every metric of every reading generate_reading returns, forced or
\* not, lies in the metric's normal range or in the override range that the
\* profile applied to the reading gives the metric.
C1_RangeContainment ==
    Returned =>
        \A m \in MetricSet :
            \/ InRange(returned[1][m], normal_ranges[m])
            \/ /\ IsOverridden(m)
               /\ InRange(returned[1][m], OverrideRange(Applied, m))

\* a reading the 15% trial made anomalous, whose overridden metric left the
\* normal range
C1_Witness ==
    /\ Returned
    /\ call.force_anomaly = None
    /\ \E m \in MetricSet :
          /\ IsOverridden(m)
          /\ ~InRange(returned[1][m], normal_ranges[m])
          /\ InRange(returned[1][m], OverrideRange(Applied, m))

\* C2: a call that names a configured profile in force_anomaly applies that
\* profile whatever the 15% trial would have given: every metric the profile
\* overrides lies in the profile's override range.
C2_ForcedProfileApplied ==
    (calls > 0 /\ call.force_anomaly \in AnomalySet) =>
        /\ Returned
        /\ \A m \in Overridden(call.force_anomaly) :
              InRange(returned[1][m], OverrideRange(call.force_anomaly, m))

\* force_anomaly = 'low_oxygen' on a random state whose trial would have
\* failed: spo2 is in [85, 94] all the same
C2_Witness ==
    /\ Returned
    /\ call.force_anomaly = "low_oxygen"
    /\ ~ShouldTriggerAnomaly(call.rng).val
    /\ Dec(85, 0) <= returned[1].spo2 /\ returned[1].spo2 <= Dec(94, 0)

\* C3: a call whose force_anomaly is no configured profile raises
\* ConfigError and returns no reading.
C3_UnknownProfileConfigError ==
    (calls > 0 /\ call.force_anomaly \notin AnomalySet \cup {None}) =>
        call.raised = "ConfigError" /\ returned = <<>>

\* C4: in a reading generated under a profile every metric the profile does
\* not override lies in its normal range; in a reading generated with no
\* anomaly all eight metrics do.
C4_UnreferencedMetricsNormal ==
    Returned =>
        \A m \in MetricSet :
            ~IsOverridden(m) => InRange(returned[1][m], normal_ranges[m])

\* a reading under high_bp: both pressures are overridden and out of their
\* normal ranges, the six other metrics are normal
C4_Witness ==
    /\ Returned
    /\ Applied = "high_bp"
    /\ ~InRange(returned[1].systolic_bp, normal_ranges.systolic_bp)
    /\ ~InRange(returned[1].diastolic_bp, normal_ranges.diastolic_bp)
    /\ \A m \in MetricSet \ {"systolic_bp", "diastolic_bp"} :
          InRange(returned[1][m], normal_ranges[m])

\* the range metric m of the returned reading was drawn from
DrawnFrom(m) == IF IsOverridden(m) THEN OverrideRange(Applied, m)
                ELSE normal_ranges[m]

\* whether that draw was an integer draw: an override range is integer-kind
\* when its literals are ints; of the normal ranges spo2, temperature and
\* sleep_hours are drawn continuously
IntegerKind(m) == IF IsOverridden(m) THEN OverrideRange(Applied, m).type = "int"
                  ELSE m \notin {"spo2", "temperature", "sleep_hours"}

-----------------------------------------------------------------------------
(* SmartWatchDataGenerator.generate_time_series *)

\* what a series call has so far: the readings appended, the random state,
\* and the (timestamp, force_anomaly) arguments of the generate_reading
\* calls it made
SeriesStart(s) == [raised |-> "none", readings |-> <<>>, state |-> s, trace |-> <<>>]

\* readings.append(reading) for the reading r that generate_reading returned
SeriesAppend(acc, r, timestamp) ==
    [raised   |-> acc.raised,
     readings |-> acc.readings \o r.data,
     state    |-> r.state,
     trace    |-> Append(acc.trace, [timestamp |-> timestamp, force_anomaly |-> None])]

\* the for loop from iteration i on: each iteration calls
\* generate_reading(timestamp) with timestamp = start_time + i * interval
RECURSIVE SeriesLoop(_, _, _, _, _)
SeriesLoop(acc, start_time, interval_minutes, num_readings, i) ==
    IF i >= num_readings THEN acc
    ELSE SeriesLoop(
             SeriesAppend(acc,
                          generate_reading(acc.state, start_time,
                                           <<start_time + i * interval_minutes>>, None),
                          start_time + i * interval_minutes),
             start_time, interval_minutes, num_readings, i + 1)

\* a series loop that runs once more than num_readings
generate_time_series_OneMore(s, clock, duration_minutes, interval_minutes) ==
    IF interval_minutes = 0
    THEN [raised |-> "ZeroDivisionError", readings |-> <<>>, state |-> s, trace |-> <<>>]
    ELSE SeriesLoop(SeriesStart(s), clock, interval_minutes,
                    duration_minutes \div interval_minutes + 1, 0)

\* a series that reseeds the random source from the clock before drawing
generate_time_series_ClockSeeded(s, clock, duration_minutes, interval_minutes) ==
    IF interval_minutes = 0
    THEN [raised |-> "ZeroDivisionError", readings |-> <<>>, state |-> s, trace |-> <<>>]
    ELSE SeriesLoop(SeriesStart(RandomSeed(clock)), clock, interval_minutes,
                    duration_minutes \div interval_minutes, 0)

\* generate_time_series(duration_minutes, interval_minutes) run on random
\* state s with the clock at clock: start_time is the clock, num_readings is
\* duration_minutes // interval_minutes
generate_time_series(s, clock, duration_minutes, interval_minutes) ==
    IF interval_minutes = 0
    THEN [raised |-> "ZeroDivisionError", readings |-> <<>>, state |-> s, trace |-> <<>>]
    ELSE SeriesLoop(SeriesStart(s), clock, interval_minutes,
                    duration_minutes \div interval_minutes, 0)

-----------------------------------------------------------------------------
(* A driver of generate_time_series: two calls, each made after an         *)
(* optional random.seed, while the wall clock moves on.                    *)

Durations == 0..MaxDuration

Intervals == 0..MaxInterval

\* <<>> for a run on the unseeded source, <<seed>> for random.seed(seed)
SeedArgs == {<<>>} \cup {<<s>> : s \in 0..MaxSeriesSeed}

InitSeries ==
    /\ rng \in {RandomSeed(s) : s \in 0..MaxSeriesSeed}
    /\ now = 1438
    /\ calls = 0
    /\ call = NoCall
    /\ returned = <<>>
    /\ runs = <<>>
    /\ MainIdle
    /\ StatsIdle
    /\ AgentsIdle

\* the wall clock moves on by a minute
Tick ==
    /\ now < 1438 + MaxClock
    /\ now' = now + 1
    /\ UNCHANGED <<rng, calls, call, returned, runs>>
    /\ UNCHANGED mainVars
    /\ UNCHANGED statsVars
    /\ UNCHANGED agentVars

CallGenerateTimeSeries(seed, duration_minutes, interval_minutes) ==
    /\ Len(runs) < 2
    /\ \E r \in {generate_time_series(IF seed = <<>> THEN rng ELSE RandomSeed(seed[1]),
                                      now, duration_minutes, interval_minutes)} :
           /\ rng' = r.state
           /\ runs' = Append(runs, [seed |-> seed,
                                    duration_minutes |-> duration_minutes,
                                    interval_minutes |-> interval_minutes,
                                    start_time |-> now,
                                    raised |-> r.raised,
                                    readings |-> r.readings,
                                    trace |-> r.trace])
    /\ UNCHANGED <<now, calls, call, returned>>
    /\ UNCHANGED mainVars
    /\ UNCHANGED statsVars
    /\ UNCHANGED agentVars

NextSeries ==
    \/ Tick
    \/ \E seed \in SeedArgs, duration_minutes \in Durations,
          interval_minutes \in Intervals :
           CallGenerateTimeSeries(seed, duration_minutes, interval_minutes)

SpecSeries == InitSeries /\ [][NextSeries]_vars

-----------------------------------------------------------------------------
(* Properties of generate_time_series (checked under SpecSeries) *)

\* the metric values of a reading, without its timestamp
MetricValues(reading) == [m \in MetricSet |-> reading[m]]

\* C6: generate_time_series returns exactly duration_minutes //
\* interval_minutes readings; reading i (from 0) carries the timestamp
\* start + i * interval, so timestamps strictly increase by the interval;
\* each reading comes from one generate_reading call with no forced anomaly.
C6_SeriesShape ==
    \A k \in DOMAIN runs :
        LET run == runs[k]
            n   == run.duration_minutes \div run.interval_minutes
        IN  run.raised = "none" =>
              /\ Len(run.readings) = n
              /\ Len(run.trace) = n
              /\ \A i \in 1..Len(run.readings) :
                    /\ fromisoformat(run.readings[i].timestamp)
                          = run.start_time + (i - 1) * run.interval_minutes
                    /\ run.readings[i].timestamp = isoformat(run.trace[i].timestamp)
                    /\ run.trace[i].force_anomaly = None
              /\ \A i \in 1..(Len(run.readings) - 1) :
                    /\ fromisoformat(run.readings[i + 1].timestamp)
                          > fromisoformat(run.readings[i].timestamp)
                    /\ fromisoformat(run.readings[i + 1].timestamp)
                          - fromisoformat(run.readings[i].timestamp)
                          = run.interval_minutes

\* a series of two readings, two minutes apart, that crosses midnight
C6_Witness ==
    \E k \in DOMAIN runs :
        /\ runs[k].raised = "none"
        /\ runs[k].duration_minutes = 4 /\ runs[k].interval_minutes = 2
        /\ Len(runs[k].readings) = 2
        /\ runs[k].readings[1].timestamp[1] = 0
        /\ runs[k].readings[2].timestamp[1] = 1

\* two runs made after random.seed of the same seed, with the same arguments
SameSeededRuns(a, b) ==
    /\ a < b
    /\ runs[a].seed # <<>>
    /\ runs[a].seed = runs[b].seed
    /\ runs[a].duration_minutes = runs[b].duration_minutes
    /\ runs[a].interval_minutes = runs[b].interval_minutes
    /\ runs[a].raised = "none"

-----------------------------------------------------------------------------
(* supabase_client.post_health_reading *)

PayloadFields == {"timestamp"} \cup MetricSet

\* reading.get(key)
DictGet(reading, key) == IF key \in DOMAIN reading THEN reading[key] ELSE None

\* the payload post_health_reading builds: a new dict of the nine fields the
\* server expects; the reading itself is only read
Payload(reading) == [key \in PayloadFields |-> DictGet(reading, key)]

\* what _request can do: return the server's data, raise SupabaseError (the
\* server answered with an error, or the client is not configured), or let an
\* exception of requests.request through (no connection, timeout)
RequestOutcomes == {"ok", "SupabaseError", "RequestException"}

-----------------------------------------------------------------------------
(* main(patient_id, push_to_supabase) *)

people == <<"Person_1", "Person_2", "Person_3", "Person_4", "Person_5", "Person_6">>

\* a tag that always writes the first person's id
TagReading_FirstPerson(reading, who) == ("person_id" :> people[1]) @@ reading

\* a tag that rebuilds the dict and restamps it
TagReading_Restamped(reading, who) ==
    ("person_id" :> who) @@ ("timestamp" :> isoformat(0)) @@ reading

\* reading['person_id'] = person
TagReading(reading, who) == ("person_id" :> who) @@ reading

\* the keys of a reading dict, in insertion order
Keys(reading) ==
    SelectSeq(<<"timestamp">> \o Metrics \o <<"person_id">>,
              LAMBDA key : key \in DOMAIN reading)

\* save_to_csv: nothing is written for an empty list; otherwise a header of
\* the first reading's keys and one row of values per reading
save_to_csv(rs) ==
    IF rs = <<>> THEN <<>>
    ELSE <<[fieldnames |-> Keys(rs[1]),
            rows |-> [k \in DOMAIN rs |->
                        [c \in DOMAIN Keys(rs[1]) |-> rs[k][Keys(rs[1])[c]]]]]>>

\* save_to_json: the list as it is
save_to_json(rs) == <<rs>>

PatientIdArgs == {None, "", "patient-1"}

InitMain ==
    /\ rng \in {RandomSeed(s) : s \in 0..MaxSeriesSeed}
    /\ now \in Clock
    /\ calls = 0
    /\ call = NoCall
    /\ returned = <<>>
    /\ runs = <<>>
    /\ pc = "for_person"
    /\ patient_id \in PatientIdArgs
    /\ push_to_supabase \in BOOLEAN
    /\ person = 1
    /\ readings = <<>>
    /\ pos = 0
    /\ all_readings = <<>>
    /\ posted = <<>>
    /\ files = [json |-> <<>>, csv |-> <<>>]
    /\ StatsIdle
    /\ AgentsIdle

\* for person in people: readings = generator.generate_time_series(24 h, 5 h)
MainGenerateSeries ==
    /\ pc = "for_person"
    /\ person <= Len(people)
    /\ \E r \in {generate_time_series(rng, now, 24 * 60, 5 * 60)} :
           /\ rng' = r.state
           /\ readings' = r.readings
    /\ pos' = 1
    /\ pc' = "for_reading"
    /\ UNCHANGED <<now, calls, call, returned, runs, patient_id, push_to_supabase,
                   person, all_readings, posted, files>>
    /\ UNCHANGED statsVars
    /\ UNCHANGED agentVars

\* one iteration of `for reading in readings` that makes no push
MainReadingLocal ==
    /\ pc = "for_reading"
    /\ pos <= Len(readings)
    /\ ~(push_to_supabase /\ Truthy(patient_id))
    /\ readings' = [readings EXCEPT ![pos] = TagReading(readings[pos], people[person])]
    /\ all_readings' = Append(all_readings, TagReading(readings[pos], people[person]))
    /\ pos' = pos + 1
    /\ UNCHANGED <<rng, now, calls, call, returned, runs, pc, patient_id,
                   push_to_supabase, person, posted, files>>
    /\ UNCHANGED statsVars
    /\ UNCHANGED agentVars

\* an iteration whose except clause leaves push_to_supabase as it is
MainReadingPush_KeepsPushing(outcome) ==
    /\ pc = "for_reading"
    /\ pos <= Len(readings)
    /\ push_to_supabase /\ Truthy(patient_id)
    /\ readings' = [readings EXCEPT ![pos] = TagReading(readings[pos], people[person])]
    /\ all_readings' = Append(all_readings, TagReading(readings[pos], people[person]))
    /\ posted' = Append(posted,
                        [patient_id |-> patient_id,
                         payload |-> Payload(TagReading(readings[pos], people[person])),
                         outcome |-> outcome])
    /\ pc' = IF outcome = "RequestException" THEN "crashed" ELSE pc
    /\ pos' = pos + 1
    /\ UNCHANGED <<rng, now, calls, call, returned, runs, patient_id, person, files,
                   push_to_supabase>>
    /\ UNCHANGED statsVars
    /\ UNCHANGED agentVars

\* an iteration that appends the reading to all_readings after the push, in
\* the try block: a reading whose push failed is not kept
MainReadingPush_AppendsAfterPush(outcome) ==
    /\ pc = "for_reading"
    /\ pos <= Len(readings)
    /\ push_to_supabase /\ Truthy(patient_id)
    /\ readings' = [readings EXCEPT ![pos] = TagReading(readings[pos], people[person])]
    /\ all_readings' = IF outcome = "ok"
                       THEN Append(all_readings, TagReading(readings[pos], people[person]))
                       ELSE all_readings
    /\ posted' = Append(posted,
                        [patient_id |-> patient_id,
                         payload |-> Payload(TagReading(readings[pos], people[person])),
                         outcome |-> outcome])
    /\ push_to_supabase' = (outcome # "SupabaseError")
    /\ pc' = IF outcome = "RequestException" THEN "crashed" ELSE pc
    /\ pos' = pos + 1
    /\ UNCHANGED <<rng, now, calls, call, returned, runs, patient_id, person, files>>
    /\ UNCHANGED statsVars
    /\ UNCHANGED agentVars

\* one iteration of `for reading in readings` that calls post_health_reading:
\* SupabaseError is caught and switches pushing off, any other exception
\* ends main
MainReadingPush(outcome) ==
    /\ pc = "for_reading"
    /\ pos <= Len(readings)
    /\ push_to_supabase /\ Truthy(patient_id)
    /\ readings' = [readings EXCEPT ![pos] = TagReading(readings[pos], people[person])]
    /\ all_readings' = Append(all_readings, TagReading(readings[pos], people[person]))
    /\ posted' = Append(posted,
                        [patient_id |-> patient_id,
                         payload |-> Payload(TagReading(readings[pos], people[person])),
                         outcome |-> outcome])
    /\ push_to_supabase' = (outcome # "SupabaseError")
    /\ pc' = IF outcome = "RequestException" THEN "crashed" ELSE pc
    /\ pos' = pos + 1
    /\ UNCHANGED <<rng, now, calls, call, returned, runs, patient_id, person, files>>
    /\ UNCHANGED statsVars
    /\ UNCHANGED agentVars

\* the inner loop is over: on to the next person
MainNextPerson ==
    /\ pc = "for_reading"
    /\ pos > Len(readings)
    /\ person' = person + 1
    /\ pc' = "for_person"
    /\ UNCHANGED <<rng, now, calls, call, returned, runs, patient_id,
                   push_to_supabase, readings, pos, all_readings, posted, files>>
    /\ UNCHANGED statsVars
    /\ UNCHANGED agentVars

\* the outer loop is over: save_to_json and save_to_csv
MainSave ==
    /\ pc = "for_person"
    /\ person > Len(people)
    /\ files' = [json |-> save_to_json(all_readings), csv |-> save_to_csv(all_readings)]
    /\ pc' = "done"
    /\ UNCHANGED <<rng, now, calls, call, returned, runs, patient_id,
                   push_to_supabase, person, readings, pos, all_readings, posted>>
    /\ UNCHANGED statsVars
    /\ UNCHANGED agentVars

NextMain ==
    \/ MainGenerateSeries
    \/ MainReadingLocal
    \/ \E outcome \in RequestOutcomes : MainReadingPush(outcome)
    \/ MainNextPerson
    \/ MainSave

SpecMain == InitMain /\ [][NextMain]_vars

-----------------------------------------------------------------------------
(* Properties of main (checked under SpecMain) *)

\* the readings of the batch that carry a person's id
ReadingsOf(who) ==
    {k \in DOMAIN all_readings : all_readings[k].person_id = who}

\* C8: when main has gone through all subjects, the batch holds for each
\* configured subject exactly one series of reading_count readings (one
\* block, five hours apart), every reading of it carries that subject's id
\* as person_id, and no reading carries another subject's id.
C8_OneSeriesPerSubject ==
    pc \in {"save", "done"} =>
        /\ Len(all_readings) = Len(people) * ((24 * 60) \div (5 * 60))
        /\ \A p \in DOMAIN people :
              LET n     == (24 * 60) \div (5 * 60)
                  first == (p - 1) * n + 1
              IN  /\ ReadingsOf(people[p]) = first..(first + n - 1)
                  /\ \A k \in first..(first + n - 2) :
                        fromisoformat(all_readings[k + 1].timestamp)
                           = fromisoformat(all_readings[k].timestamp) + 5 * 60

\* main has finished: 24 readings, the last ones tagged Person_6
C8_Witness ==
    /\ pc = "done"
    /\ Len(all_readings) = 24
    /\ all_readings[21].person_id = "Person_6"
    /\ all_readings[24].person_id = "Person_6"
    /\ all_readings[1].person_id = "Person_1"

\* C9 (as claimed): a reading is never mutated after generate_reading
\* returned it: no later step of main adds, removes or changes a field of a
\* reading of the current series.
C9_ReadingsNeverMutated ==
    [][(pc = "for_reading" /\ pc' = "for_reading") => readings' = readings]_vars

\* reading after is reading before, except that a person_id was added
OnlyTagged(before, after) ==
    /\ DOMAIN before \subseteq DOMAIN after
    /\ DOMAIN after \subseteq DOMAIN before \cup {"person_id"}
    /\ \A key \in DOMAIN before : after[key] = before[key]

\* C9 (amended): after generate_reading returned a reading, main adds the
\* field person_id to it, once, and nothing else: no step of series or batch
\* generation, pushing or saving removes a field or changes the timestamp, a
\* metric or a person_id already set, and a reading appended to all_readings
\* never changes again.
C9_ReadingsOnlyTagged ==
    [][/\ (pc = "for_reading" /\ pc' \in {"for_reading", "crashed"}) =>
              /\ Len(readings') = Len(readings)
              /\ \A k \in DOMAIN readings : OnlyTagged(readings[k], readings'[k])
       /\ \A k \in DOMAIN all_readings :
              /\ k \in DOMAIN all_readings'
              /\ all_readings'[k] = all_readings[k]
       /\ \A k \in DOMAIN posted :
              /\ k \in DOMAIN posted'
              /\ posted'[k] = posted[k]]_vars

\* in the middle of a series: the first reading is tagged and was pushed, the
\* third is still as generate_reading returned it
C9_Witness ==
    /\ pc = "for_reading"
    /\ pos = 3
    /\ "person_id" \in DOMAIN readings[1]
    /\ "person_id" \notin DOMAIN readings[3]
    /\ Len(posted) >= 2
    /\ posted[1].payload.heart_rate = readings[1].heart_rate

-----------------------------------------------------------------------------
(* pandas: a DataFrame is its set of columns and its rows, each row a      *)
(* record over the columns; a Series is the sequence of a column's values  *)

\* df[column]
Column(frame, column) == [k \in DOMAIN frame.rows |-> frame.rows[k][column]]

RECURSIVE SeqSum(_)
SeqSum(values) ==
    IF values = <<>> THEN 0 ELSE Head(values) + SeqSum(Tail(values))

RECURSIVE SeqSumSquares(_)
SeqSumSquares(values) ==
    IF values = <<>> THEN 0
    ELSE Head(values) * Head(values) + SeqSumSquares(Tail(values))

\* Series.min() and Series.max() of a non-empty series
SeqMin(values) ==
    CHOOSE v \in {values[k] : k \in DOMAIN values} :
        \A k \in DOMAIN values : v <= values[k]

SeqMax(values) ==
    CHOOSE v \in {values[k] : k \in DOMAIN values} :
        \A k \in DOMAIN values : v >= values[k]

\* round(Series.mean(), 1)
RoundedMean(values) == RoundTenth(SeqSum(values), Len(values))

\* the nearest tenth to the square root of num / den, a tie going to the
\* even tenth: the largest q in 0..limit with (10q - 5)^2 <= num / den
RoundedRoot(num, den, limit) ==
    10 * CHOOSE q \in 0..limit :
            /\ \/ q = 0
               \/ (10 * q - 5) * (10 * q - 5) * den < num
               \/ (10 * q - 5) * (10 * q - 5) * den = num /\ q % 2 = 0
            /\ \/ (10 * q + 5) * (10 * q + 5) * den > num
               \/ (10 * q + 5) * (10 * q + 5) * den = num /\ q % 2 = 0

\* the float NaN; a float that may be NaN is <<v>> when it is the number v
NaN == <<>>

\* round(Series.std(), 1): the sample standard deviation (divisor n - 1),
\* which is NaN for a series of one value
RoundedStd(values) ==
    IF Len(values) < 2 THEN NaN
    ELSE <<RoundedRoot(Len(values) * SeqSumSquares(values)
                          - SeqSum(values) * SeqSum(values),
                       Len(values) * (Len(values) - 1),
                       (SeqMax(values) - SeqMin(values)) \div 10 + 1)>>

\* len(df[condition]), given the set of the indices of the rows that
\* satisfy the condition
CountRows(selected) == Cardinality(selected)

-----------------------------------------------------------------------------
(* analyze_health_data.analyze_data_statistics *)

\* the columns analyze_data_statistics reads, in the order it reads them
AnalyzeColumns ==
    <<"timestamp", "heart_rate", "spo2", "temperature", "systolic_bp",
      "diastolic_bp", "stress_level", "steps">>

\* an anomalies dict whose comparisons include the threshold
AnalyzeAnomalies_Inclusive(rows) ==
    [high_heart_rate |-> CountRows({k \in DOMAIN rows : rows[k].heart_rate >= Dec(120, 0)}),
     low_heart_rate  |-> CountRows({k \in DOMAIN rows : rows[k].heart_rate <= Dec(60, 0)}),
     low_oxygen      |-> CountRows({k \in DOMAIN rows : rows[k].spo2 <= Dec(95, 0)}),
     high_temp       |-> CountRows({k \in DOMAIN rows : rows[k].temperature >= Dec(37, 2)}),
     low_temp        |-> CountRows({k \in DOMAIN rows : rows[k].temperature <= Dec(36, 1)}),
     high_bp         |-> CountRows({k \in DOMAIN rows : rows[k].systolic_bp >= Dec(130, 0)}),
     low_bp          |-> CountRows({k \in DOMAIN rows : rows[k].systolic_bp <= Dec(110, 0)}),
     high_stress     |-> CountRows({k \in DOMAIN rows : rows[k].stress_level >= Dec(6, 0)})]

\* the anomalies dict: one len(df[...]) per rule
AnalyzeAnomalies(rows) ==
    [high_heart_rate |-> CountRows({k \in DOMAIN rows : rows[k].heart_rate > Dec(120, 0)}),
     low_heart_rate  |-> CountRows({k \in DOMAIN rows : rows[k].heart_rate < Dec(60, 0)}),
     low_oxygen      |-> CountRows({k \in DOMAIN rows : rows[k].spo2 < Dec(95, 0)}),
     high_temp       |-> CountRows({k \in DOMAIN rows : rows[k].temperature > Dec(37, 2)}),
     low_temp        |-> CountRows({k \in DOMAIN rows : rows[k].temperature < Dec(36, 1)}),
     high_bp         |-> CountRows({k \in DOMAIN rows : rows[k].systolic_bp > Dec(130, 0)}),
     low_bp          |-> CountRows({k \in DOMAIN rows : rows[k].systolic_bp < Dec(110, 0)}),
     high_stress     |-> CountRows({k \in DOMAIN rows : rows[k].stress_level > Dec(6, 0)})]

\* the sum of a dict's values over a set of its keys
RECURSIVE SumOver(_, _)
SumOver(dict, keys) ==
    IF keys = {} THEN 0
    ELSE dict[CHOOSE k \in keys : TRUE]
            + SumOver(dict, keys \ {CHOOSE k \in keys : TRUE})

\* the number of the values of a dict that are not 0
SumValues_NonZero(dict) == Cardinality({k \in DOMAIN dict : dict[k] # 0})

\* sum(anomalies.values())
SumValues(dict) == SumOver(dict, DOMAIN dict)

\* the stats dict of a table that has rows and all the columns read
AnalyzeStats(frame, anomalies) ==
    [total_readings |-> Len(frame.rows),
     time_span      |-> <<frame.rows[1].timestamp,
                          frame.rows[Len(frame.rows)].timestamp>>,
     heart_rate     |-> [avg |-> RoundedMean(Column(frame, "heart_rate")),
                         min |-> SeqMin(Column(frame, "heart_rate")),
                         max |-> SeqMax(Column(frame, "heart_rate")),
                         std |-> RoundedStd(Column(frame, "heart_rate"))],
     spo2           |-> [avg |-> RoundedMean(Column(frame, "spo2")),
                         min |-> RoundTenth(SeqMin(Column(frame, "spo2")), 1),
                         max |-> RoundTenth(SeqMax(Column(frame, "spo2")), 1)],
     temperature    |-> [avg |-> RoundedMean(Column(frame, "temperature")),
                         min |-> RoundTenth(SeqMin(Column(frame, "temperature")), 1),
                         max |-> RoundTenth(SeqMax(Column(frame, "temperature")), 1)],
     blood_pressure |-> [systolic_avg    |-> RoundedMean(Column(frame, "systolic_bp")),
                         diastolic_avg   |-> RoundedMean(Column(frame, "diastolic_bp")),
                         systolic_range  |-> <<SeqMin(Column(frame, "systolic_bp")),
                                               SeqMax(Column(frame, "systolic_bp"))>>,
                         diastolic_range |-> <<SeqMin(Column(frame, "diastolic_bp")),
                                               SeqMax(Column(frame, "diastolic_bp"))>>],
     stress_level   |-> [avg |-> RoundedMean(Column(frame, "stress_level")),
                         max |-> SeqMax(Column(frame, "stress_level"))],
     total_steps    |-> SeqSum(Column(frame, "steps")),
     anomalies      |-> anomalies,
     total_anomalies |-> SumValues(anomalies)]

\* an analyze_data_statistics that numbers its reports: total_readings also
\* counts the reports made before
analyze_data_statistics_Counting(frame) ==
    IF "timestamp" \notin frame.columns
    THEN [raised |-> "KeyError", value |-> <<>>, df |-> frame]
    ELSE IF frame.rows = <<>>
    THEN [raised |-> "IndexError", value |-> <<>>, df |-> frame]
    ELSE IF \E k \in DOMAIN AnalyzeColumns : AnalyzeColumns[k] \notin frame.columns
    THEN [raised |-> "KeyError", value |-> <<>>, df |-> frame]
    ELSE [raised |-> "none",
          value |-> <<[AnalyzeStats(frame, AnalyzeAnomalies(frame.rows))
                          EXCEPT !.total_readings = @ + Len(stats)]>>,
          df |-> frame]

\* analyze_data_statistics(df): df['timestamp'] raises KeyError when the
\* column is missing and .iloc[0] raises IndexError when there is no row;
\* then every other column read raises KeyError when it is missing.
\* df is the object the argument names when the call is over: the function
\* only reads it.
analyze_data_statistics(frame) ==
    IF "timestamp" \notin frame.columns
    THEN [raised |-> "KeyError", value |-> <<>>, df |-> frame]
    ELSE IF frame.rows = <<>>
    THEN [raised |-> "IndexError", value |-> <<>>, df |-> frame]
    ELSE IF \E k \in DOMAIN AnalyzeColumns : AnalyzeColumns[k] \notin frame.columns
    THEN [raised |-> "KeyError", value |-> <<>>, df |-> frame]
    ELSE [raised |-> "none",
          value |-> <<AnalyzeStats(frame, AnalyzeAnomalies(frame.rows))>>,
          df |-> frame]

-----------------------------------------------------------------------------
(* doctor_chat.get_patient_context (without a document processor) *)

\* df[df["person_id"] == patient_id]
PatientData(frame, patient) ==
    [columns |-> frame.columns,
     rows    |-> SelectSeq(frame.rows, LAMBDA row : row.person_id = patient)]

\* the ten event counts written into the context
ContextCounts(rows) ==
    [high_hr         |-> CountRows({k \in DOMAIN rows : rows[k].heart_rate > Dec(120, 0)}),
     low_hr          |-> CountRows({k \in DOMAIN rows : rows[k].heart_rate < Dec(60, 0)}),
     low_o2          |-> CountRows({k \in DOMAIN rows : rows[k].spo2 < Dec(95, 0)}),
     high_temp       |-> CountRows({k \in DOMAIN rows : rows[k].temperature > Dec(37, 2)}),
     low_temp        |-> CountRows({k \in DOMAIN rows : rows[k].temperature < Dec(36, 1)}),
     high_bp         |-> CountRows({k \in DOMAIN rows : rows[k].systolic_bp > Dec(130, 0)}),
     low_bp          |-> CountRows({k \in DOMAIN rows : rows[k].systolic_bp < Dec(110, 0)}),
     high_stress     |-> CountRows({k \in DOMAIN rows : rows[k].stress_level > Dec(6, 0)}),
     poor_sleep      |-> CountRows({k \in DOMAIN rows : rows[k].sleep_hours < Dec(6, 5)}),
     excessive_sleep |-> CountRows({k \in DOMAIN rows : rows[k].sleep_hours > Dec(9, 0)})]

\* the numbers the context text is built from
ContextOf(patient, data) ==
    [patient        |-> patient,
     period         |-> <<data.rows[1].timestamp, data.rows[Len(data.rows)].timestamp>>,
     total_readings |-> Len(data.rows),
     heart_rate     |-> [avg |-> RoundedMean(Column(data, "heart_rate")),
                         min |-> SeqMin(Column(data, "heart_rate")),
                         max |-> SeqMax(Column(data, "heart_rate"))],
     spo2           |-> [avg |-> RoundedMean(Column(data, "spo2")),
                         min |-> RoundTenth(SeqMin(Column(data, "spo2")), 1),
                         max |-> RoundTenth(SeqMax(Column(data, "spo2")), 1)],
     temperature    |-> [avg |-> RoundedMean(Column(data, "temperature")),
                         min |-> RoundTenth(SeqMin(Column(data, "temperature")), 1),
                         max |-> RoundTenth(SeqMax(Column(data, "temperature")), 1)],
     blood_pressure |-> [systolic_avg    |-> RoundedMean(Column(data, "systolic_bp")),
                         diastolic_avg   |-> RoundedMean(Column(data, "diastolic_bp")),
                         systolic_range  |-> <<SeqMin(Column(data, "systolic_bp")),
                                               SeqMax(Column(data, "systolic_bp"))>>,
                         diastolic_range |-> <<SeqMin(Column(data, "diastolic_bp")),
                                               SeqMax(Column(data, "diastolic_bp"))>>],
     stress_level   |-> [avg |-> RoundedMean(Column(data, "stress_level")),
                         max |-> SeqMax(Column(data, "stress_level"))],
     sleep_hours    |-> [avg |-> RoundedMean(Column(data, "sleep_hours")),
                         min |-> RoundTenth(SeqMin(Column(data, "sleep_hours")), 1),
                         max |-> RoundTenth(SeqMax(Column(data, "sleep_hours")), 1)],
     total_steps    |-> SeqSum(Column(data, "steps")),
     anomalies      |-> ContextCounts(data.rows)]

\* a get_patient_context that filters the table in place: df itself keeps
\* only the patient's rows
get_patient_context_InPlace(frame, patient) ==
    IF "person_id" \notin frame.columns
    THEN [raised |-> "KeyError", value |-> <<>>, df |-> frame]
    ELSE IF PatientData(frame, patient).rows = <<>>
    THEN [raised |-> "none", value |-> <<>>, df |-> PatientData(frame, patient)]
    ELSE IF ({"timestamp"} \cup MetricSet) \ frame.columns # {}
    THEN [raised |-> "KeyError", value |-> <<>>, df |-> PatientData(frame, patient)]
    ELSE [raised |-> "none",
          value |-> <<ContextOf(patient, PatientData(frame, patient))>>,
          df |-> PatientData(frame, patient)]

\* get_patient_context(df, patient_id): None (no value) when the patient has
\* no row, KeyError when a column it reads is missing.  patient_data is a
\* new table; df, the object the argument names, is only read.
get_patient_context(frame, patient) ==
    IF "person_id" \notin frame.columns
    THEN [raised |-> "KeyError", value |-> <<>>, df |-> frame]
    ELSE IF PatientData(frame, patient).rows = <<>>
    THEN [raised |-> "none", value |-> <<>>, df |-> frame]
    ELSE IF ({"timestamp"} \cup MetricSet) \ frame.columns # {}
    THEN [raised |-> "KeyError", value |-> <<>>, df |-> frame]
    ELSE [raised |-> "none",
          value |-> <<ContextOf(patient, PatientData(frame, patient))>>,
          df |-> frame]

-----------------------------------------------------------------------------
(* chat_health_data.get_data_context *)

\* the indices at which a value of a series appears for the first time
FirstIndices(values) ==
    {k \in DOMAIN values : \A j \in 1..(k - 1) : values[j] # values[k]}

\* Series.unique(): the distinct values in order of first appearance
Unique(values) ==
    [i \in 1..Cardinality(FirstIndices(values)) |->
        values[CHOOSE k \in FirstIndices(values) :
                  Cardinality({j \in FirstIndices(values) : j <= k}) = i]]

\* f"{x:.0f}" of the fraction x = num / den (in hundredths, den > 0): the
\* nearest whole number, a tie going to the even one
RoundUnit(num, den) ==
    IF 2 * (num % (100 * den)) < 100 * den THEN 100 * (num \div (100 * den))
    ELSE IF 2 * (num % (100 * den)) > 100 * den THEN 100 * (num \div (100 * den) + 1)
    ELSE IF (num \div (100 * den)) % 2 = 0 THEN 100 * (num \div (100 * den))
    ELSE 100 * (num \div (100 * den) + 1)

\* f"{Series.mean():.0f}" and f"{Series.mean():.1f}": the mean of no value
\* is NaN, which formats as 'nan'
MeanUnit(values) ==
    IF values = <<>> THEN NaN ELSE <<RoundUnit(SeqSum(values), Len(values))>>

MeanTenth(values) ==
    IF values = <<>> THEN NaN ELSE <<RoundTenth(SeqSum(values), Len(values))>>

\* the six event counts of one person's line
PersonIssues(rows) ==
    [high_hr     |-> CountRows({k \in DOMAIN rows : rows[k].heart_rate > Dec(120, 0)}),
     low_o2      |-> CountRows({k \in DOMAIN rows : rows[k].spo2 < Dec(95, 0)}),
     high_temp   |-> CountRows({k \in DOMAIN rows : rows[k].temperature > Dec(37, 2)}),
     high_bp     |-> CountRows({k \in DOMAIN rows : rows[k].systolic_bp > Dec(130, 0)}),
     high_stress |-> CountRows({k \in DOMAIN rows : rows[k].stress_level > Dec(6, 0)}),
     poor_sleep  |-> CountRows({k \in DOMAIN rows : rows[k].sleep_hours < Dec(6, 5)})]

\* the line of one person: person_data = df[df['person_id'] == person]
PersonLine(who, person_data) ==
    [person       |-> who,
     heart_rate   |-> MeanUnit(Column(person_data, "heart_rate")),
     spo2         |-> MeanUnit(Column(person_data, "spo2")),
     temperature  |-> MeanTenth(Column(person_data, "temperature")),
     systolic_bp  |-> MeanUnit(Column(person_data, "systolic_bp")),
     diastolic_bp |-> MeanUnit(Column(person_data, "diastolic_bp")),
     sleep_hours  |-> MeanTenth(Column(person_data, "sleep_hours")),
     issues       |-> PersonIssues(person_data.rows)]

\* the numbers the context text is built from: the summary and the averages
\* over every row of the table, then one line per person
DataContextOf(frame, persons) ==
    [people     |-> persons,
     readings   |-> Len(frame.rows),
     overall    |-> [heart_rate   |-> MeanUnit(Column(frame, "heart_rate")),
                     spo2         |-> MeanUnit(Column(frame, "spo2")),
                     temperature  |-> MeanTenth(Column(frame, "temperature")),
                     systolic_bp  |-> MeanUnit(Column(frame, "systolic_bp")),
                     diastolic_bp |-> MeanUnit(Column(frame, "diastolic_bp")),
                     stress_level |-> MeanTenth(Column(frame, "stress_level")),
                     sleep_hours  |-> MeanTenth(Column(frame, "sleep_hours"))],
     per_person |-> [i \in DOMAIN persons |->
                        PersonLine(persons[i], PatientData(frame, persons[i]))]]

\* the columns get_data_context reads
DataContextColumns ==
    {"person_id", "heart_rate", "spo2", "temperature", "systolic_bp",
     "diastolic_bp", "stress_level", "sleep_hours"}

\* get_data_context(df): KeyError when a column it reads is missing; a table
\* without rows gives a context of no person and NaN averages
get_data_context(frame) ==
    IF DataContextColumns \ frame.columns # {}
    THEN [raised |-> "KeyError", value |-> <<>>, df |-> frame]
    ELSE [raised |-> "none",
          value |-> <<DataContextOf(frame, Unique(Column(frame, "person_id")))>>,
          df |-> frame]

-----------------------------------------------------------------------------
(* A driver of the statistics: a table as load_health_data returns it from *)
(* smartwatch_data.csv or any other source, then any statistics calls.     *)

\* a row of the table, values given as (whole, tenth) pairs
Row(who, hr, ox, tmp, sys, dia, stp, str, slp) ==
    [person_id |-> who, heart_rate |-> Dec(hr, 0), spo2 |-> Dec(ox[1], ox[2]),
     temperature |-> Dec(tmp[1], tmp[2]), systolic_bp |-> Dec(sys, 0),
     diastolic_bp |-> Dec(dia, 0), steps |-> Dec(stp, 0),
     stress_level |-> Dec(str, 0), sleep_hours |-> Dec(slp[1], slp[2])]

StatsPeople == {"Person_1", "Person_2"}

\* rows around the thresholds: an unremarkable row, rows with every metric
\* on a threshold, rows with every metric one step past its upper or its
\* lower threshold, and rows that are out of range in one or two metrics
SampleValues ==
    {<<70, <<98, 0>>, <<36, 6>>, 120, 80, 50, 3, <<7, 5>>>>,
     <<120, <<95, 0>>, <<37, 2>>, 130, 85, 150, 6, <<9, 0>>>>,
     <<60, <<95, 0>>, <<36, 1>>, 110, 70, 0, 1, <<6, 5>>>>,
     <<121, <<98, 0>>, <<37, 3>>, 131, 86, 50, 7, <<9, 1>>>>,
     <<59, <<94, 9>>, <<36, 0>>, 109, 69, 50, 3, <<6, 4>>>>,
     <<125, <<98, 0>>, <<36, 6>>, 120, 80, 50, 3, <<7, 5>>>>,
     <<55, <<98, 0>>, <<36, 6>>, 120, 80, 50, 3, <<4, 0>>>>,
     <<70, <<90, 0>>, <<36, 6>>, 150, 95, 50, 9, <<7, 5>>>>}

\* the rows of the second person: fewer, to keep the tables few
OtherValues ==
    {<<70, <<98, 0>>, <<36, 6>>, 120, 80, 50, 3, <<7, 5>>>>,
     <<121, <<98, 0>>, <<37, 3>>, 131, 86, 50, 7, <<9, 1>>>>,
     <<59, <<94, 9>>, <<36, 0>>, 109, 69, 50, 3, <<6, 4>>>>,
     <<62, <<99, 0>>, <<36, 8>>, 115, 75, 100, 2, <<8, 0>>>>}

SampleRows ==
    {Row("Person_1", r[1], r[2], r[3], r[4], r[5], r[6], r[7], r[8]) :
        r \in SampleValues}
    \cup {Row("Person_2", r[1], r[2], r[3], r[4], r[5], r[6], r[7], r[8]) :
             r \in OtherValues}

TableColumns == {"timestamp", "person_id"} \cup MetricSet

\* the tables of n sample rows, stamped five hours apart
TablesOfLength(n) ==
    {[columns |-> TableColumns,
      rows |-> [k \in 1..n |->
                  ("timestamp" :> isoformat(1438 + (k - 1) * 300)) @@ f[k]]] :
        f \in [1..n -> SampleRows]}

\* the tables of up to MaxRows sample rows
Tables == UNION {TablesOfLength(n) : n \in 0..MaxRows}

\* a table without one of its columns
WithoutColumn(frame, column) ==
    [columns |-> frame.columns \ {column},
     rows    |-> [k \in DOMAIN frame.rows |->
                    [c \in frame.columns \ {column} |-> frame.rows[k][c]]]]

\* the tables of fewer than MaxRows rows from a source that lacks a column
TablesLackingColumn ==
    {WithoutColumn(t, column) :
        t \in UNION {TablesOfLength(n) : n \in 0..(MaxRows - 1)},
        column \in TableColumns}

InitStats ==
    /\ rng = 0
    /\ now = 1438
    /\ calls = 0
    /\ call = NoCall
    /\ returned = <<>>
    /\ runs = <<>>
    /\ MainIdle
    /\ df \in Tables \cup TablesLackingColumn
    /\ result = [op |-> "none", patient_id |-> None, raised |-> "none", value |-> <<>>]
    /\ stats = <<>>
    /\ AgentsIdle

\* stats = analyze_data_statistics(df)
CallAnalyze ==
    /\ Len(stats) < MaxAnalyzeCalls
    /\ \E r \in {analyze_data_statistics(df)} :
           /\ result' = [op |-> "analyze_data_statistics", patient_id |-> None,
                         raised |-> r.raised, value |-> r.value]
           /\ stats' = Append(stats, [raised |-> r.raised, value |-> r.value])
           /\ df' = r.df
    /\ UNCHANGED <<rng, now, calls, call, returned, runs>>
    /\ UNCHANGED mainVars
    /\ UNCHANGED agentVars

\* context = get_patient_context(df, patient)
CallGetPatientContext(patient) ==
    /\ \E r \in {get_patient_context(df, patient)} :
           /\ result' = [op |-> "get_patient_context", patient_id |-> patient,
                         raised |-> r.raised, value |-> r.value]
           /\ df' = r.df
    /\ UNCHANGED <<stats, rng, now, calls, call, returned, runs>>
    /\ UNCHANGED mainVars
    /\ UNCHANGED agentVars

\* context = get_data_context(df)
CallGetDataContext ==
    /\ \E r \in {get_data_context(df)} :
           /\ result' = [op |-> "get_data_context", patient_id |-> None,
                         raised |-> r.raised, value |-> r.value]
           /\ df' = r.df
    /\ UNCHANGED <<stats, rng, now, calls, call, returned, runs>>
    /\ UNCHANGED mainVars
    /\ UNCHANGED agentVars

NextStats ==
    \/ CallAnalyze
    \/ \E patient \in StatsPeople \cup {"Person_3"} : CallGetPatientContext(patient)
    \/ CallGetDataContext

SpecStats == InitStats /\ [][NextStats]_vars

-----------------------------------------------------------------------------
(* Properties of the statistics (checked under SpecStats) *)

\* the ten detection rules
DetectionRules ==
    {"high_heart_rate", "low_heart_rate", "low_oxygen", "high_temp", "low_temp",
     "high_bp", "low_bp", "high_stress", "poor_sleep", "excessive_sleep"}

\* the condition of a detection rule on one reading
RuleHolds(rule, row) ==
    CASE rule = "high_heart_rate" -> row.heart_rate > Dec(120, 0)
      [] rule = "low_heart_rate"  -> row.heart_rate < Dec(60, 0)
      [] rule = "low_oxygen"      -> row.spo2 < Dec(95, 0)
      [] rule = "high_temp"       -> row.temperature > Dec(37, 2)
      [] rule = "low_temp"        -> row.temperature < Dec(36, 1)
      [] rule = "high_bp"         -> row.systolic_bp > Dec(130, 0)
      [] rule = "low_bp"          -> row.systolic_bp < Dec(110, 0)
      [] rule = "high_stress"     -> row.stress_level > Dec(6, 0)
      [] rule = "poor_sleep"      -> row.sleep_hours < Dec(6, 5)
      [] rule = "excessive_sleep" -> row.sleep_hours > Dec(9, 0)

\* the last call was analyze_data_statistics and it returned a report
Analyzed ==
    /\ result.op = "analyze_data_statistics"
    /\ result.raised = "none"
    /\ Len(result.value) = 1

\* C10: the report of analyze_data_statistics carries one counter for each
\* of the ten detection rules, and each counter is the number of readings of
\* the series that satisfy the rule's condition, whatever the other rules
\* count.
C10_TenRuleCounters ==
    Analyzed =>
        \A rule \in DetectionRules :
            /\ rule \in DOMAIN result.value[1].anomalies
            /\ result.value[1].anomalies[rule]
                  = CountRows({k \in DOMAIN df.rows : RuleHolds(rule, df.rows[k])})

\* the metric a detection rule reads
RuleMetric(rule) ==
    CASE rule \in {"high_heart_rate", "low_heart_rate"} -> "heart_rate"
      [] rule = "low_oxygen"                            -> "spo2"
      [] rule \in {"high_temp", "low_temp"}             -> "temperature"
      [] rule \in {"high_bp", "low_bp"}                 -> "systolic_bp"
      [] rule = "high_stress"                           -> "stress_level"
      [] rule \in {"poor_sleep", "excessive_sleep"}     -> "sleep_hours"

\* the threshold of a detection rule
RuleThreshold(rule) ==
    CASE rule = "high_heart_rate" -> Dec(120, 0)
      [] rule = "low_heart_rate"  -> Dec(60, 0)
      [] rule = "low_oxygen"      -> Dec(95, 0)
      [] rule = "high_temp"       -> Dec(37, 2)
      [] rule = "low_temp"        -> Dec(36, 1)
      [] rule = "high_bp"         -> Dec(130, 0)
      [] rule = "low_bp"          -> Dec(110, 0)
      [] rule = "high_stress"     -> Dec(6, 0)
      [] rule = "poor_sleep"      -> Dec(6, 5)
      [] rule = "excessive_sleep" -> Dec(9, 0)

\* the rules that fire above their threshold; the others fire below it
UpperRules ==
    {"high_heart_rate", "high_temp", "high_bp", "high_stress", "excessive_sleep"}

\* how far a reading is past the threshold of a rule, on the rule's side:
\* 0 on the threshold, negative on the normal side
PastThreshold(rule, row) ==
    IF rule \in UpperRules
    THEN row[RuleMetric(rule)] - RuleThreshold(rule)
    ELSE RuleThreshold(rule) - row[RuleMetric(rule)]

\* the name a rule's counter has in the context of get_patient_context
ContextKey(rule) ==
    CASE rule = "high_heart_rate" -> "high_hr"
      [] rule = "low_heart_rate"  -> "low_hr"
      [] rule = "low_oxygen"      -> "low_o2"
      [] OTHER                    -> rule

\* the last call was get_patient_context and it returned a context
ContextGiven ==
    /\ result.op = "get_patient_context"
    /\ result.raised = "none"
    /\ Len(result.value) = 1

\* the number of the rows that are strictly past a rule's threshold
StrictlyPast(rule, rows) ==
    Cardinality({k \in DOMAIN rows : PastThreshold(rule, rows[k]) > 0})

\* C11: every counter of a report counts the readings that are strictly
\* past the rule's threshold: a reading on the threshold adds 0 to it and a
\* reading past the threshold adds exactly 1 (heart_rate 120 adds 0 to
\* high_heart_rate, heart_rate 121 adds 1), in analyze_data_statistics and
\* in get_patient_context alike.
C11_StrictThresholds ==
    /\ Analyzed =>
          \A rule \in DetectionRules \cap DOMAIN result.value[1].anomalies :
              result.value[1].anomalies[rule] = StrictlyPast(rule, df.rows)
    /\ ContextGiven =>
          \A rule \in DetectionRules :
              result.value[1].anomalies[ContextKey(rule)]
                  = StrictlyPast(rule, PatientData(df, result.patient_id).rows)

\* a report over a reading of heart_rate 120 and a reading of heart_rate
\* 121, whose high_heart_rate counter is 1
C11_Witness ==
    /\ Analyzed
    /\ \E k \in DOMAIN df.rows : df.rows[k].heart_rate = Dec(120, 0)
    /\ \E k \in DOMAIN df.rows : df.rows[k].heart_rate = Dec(121, 0)
    /\ Len(df.rows) = 2
    /\ result.value[1].anomalies.high_heart_rate = 1

\* the number of the given rules that a reading triggers
RulesTriggered(rules, row) ==
    Cardinality({rule \in rules : PastThreshold(rule, row) > 0})

\* the readings that trigger at least one of the given rules
AnomalousReadings(rules, rows) ==
    {k \in DOMAIN rows : RulesTriggered(rules, rows[k]) > 0}

\* C12: total_anomalies of a report is the sum of the report's per-rule
\* counters, so that a reading that triggers k of its rules contributes k to
\* the total (the total is not the number of anomalous readings).
C12_TotalIsSumOfCounters ==
    Analyzed =>
        /\ result.value[1].total_anomalies
              = result.value[1].anomalies.high_heart_rate
                + result.value[1].anomalies.low_heart_rate
                + result.value[1].anomalies.low_oxygen
                + result.value[1].anomalies.high_temp
                + result.value[1].anomalies.low_temp
                + result.value[1].anomalies.high_bp
                + result.value[1].anomalies.low_bp
                + result.value[1].anomalies.high_stress
        /\ result.value[1].total_anomalies
              = SeqSum([k \in DOMAIN df.rows |->
                          RulesTriggered(DOMAIN result.value[1].anomalies, df.rows[k])])

\* a report over two readings of which one triggers several rules: its total
\* is larger than the number of anomalous readings
C12_Witness ==
    /\ Analyzed
    /\ Len(df.rows) = 2
    /\ \E k \in DOMAIN df.rows :
           RulesTriggered(DOMAIN result.value[1].anomalies, df.rows[k]) > 1
    /\ result.value[1].total_anomalies
          > Cardinality(AnomalousReadings(DOMAIN result.value[1].anomalies, df.rows))

\* the last call was analyze_data_statistics, whatever it gave
AnalyzeCalled == result.op = "analyze_data_statistics"

\* C13: analyze_data_statistics applied to a series of no reading fails with
\* a DataError and produces no report.
C13_EmptySeriesDataError ==
    (AnalyzeCalled /\ df.rows = <<>>) =>
        /\ result.raised = "DataError"
        /\ result.value = <<>>

\* C14: analyze_data_statistics applied to a series that lacks the column of
\* one of the eight metrics fails with a DataError; it never returns a report
\* in which the missing metric was skipped or defaulted.
C14_MissingColumnDataError ==
    (AnalyzeCalled /\ MetricSet \ df.columns # {}) =>
        /\ result.raised = "DataError"
        /\ result.value = <<>>

ReportedAggregates(report) ==
    [heart_rate   |-> [mean |-> <<report.heart_rate.avg>>,
                       min  |-> <<report.heart_rate.min>>,
                       max  |-> <<report.heart_rate.max>>],
     spo2         |-> [mean |-> <<report.spo2.avg>>,
                       min  |-> <<report.spo2.min>>,
                       max  |-> <<report.spo2.max>>],
     temperature  |-> [mean |-> <<report.temperature.avg>>,
                       min  |-> <<report.temperature.min>>,
                       max  |-> <<report.temperature.max>>],
     systolic_bp  |-> [mean |-> <<report.blood_pressure.systolic_avg>>,
                       min  |-> <<report.blood_pressure.systolic_range[1]>>,
                       max  |-> <<report.blood_pressure.systolic_range[2]>>],
     diastolic_bp |-> [mean |-> <<report.blood_pressure.diastolic_avg>>,
                       min  |-> <<report.blood_pressure.diastolic_range[1]>>,
                       max  |-> <<report.blood_pressure.diastolic_range[2]>>],
     steps        |-> [mean |-> <<>>, min |-> <<>>, max |-> <<>>],
     stress_level |-> [mean |-> <<report.stress_level.avg>>,
                       min  |-> <<>>,
                       max  |-> <<report.stress_level.max>>],
     sleep_hours  |-> [mean |-> <<>>, min |-> <<>>, max |-> <<>>]]

\* C17: for every metric present in the series the report of
\* analyze_data_statistics contains the metric's mean (rounded to one
\* decimal), its least and its greatest value over the series.
C17_MeanMinMaxEveryMetric ==
    Analyzed =>
        \A m \in MetricSet \cap df.columns :
            /\ ReportedAggregates(result.value[1])[m].mean
                  = <<RoundTenth(SeqSum(Column(df, m)), Len(df.rows))>>
            /\ ReportedAggregates(result.value[1])[m].min = <<SeqMin(Column(df, m))>>
            /\ ReportedAggregates(result.value[1])[m].max = <<SeqMax(Column(df, m))>>

\* the metrics whose values are continuous: those drawn as floats
ContinuousMetrics == {m \in MetricSet : normal_ranges[m].type = "float"}

\* the standard deviation a report of analyze_data_statistics carries for a
\* metric: <<v>>, or <<>> when it is NaN or the report has no such entry
ReportedStd(report, m) ==
    IF m = "heart_rate" THEN report.heart_rate.std ELSE <<>>

\* C18: the report contains a standard deviation exactly for the
\* continuous-valued metrics when the series has more than one reading; for
\* a series of one reading analyze_data_statistics still succeeds and the
\* standard deviation is undefined or omitted.
C18_StdForContinuousMetrics ==
    /\ Analyzed =>
          \A m \in MetricSet \cap df.columns :
              ReportedStd(result.value[1], m) # <<>>
                  <=> (m \in ContinuousMetrics /\ Len(df.rows) > 1)
    /\ (AnalyzeCalled /\ Len(df.rows) = 1 /\ df.columns = TableColumns) =>
          result.raised = "none"

\* the subjects that have a reading in a table
Subjects(frame) == {frame.rows[k].person_id : k \in DOMAIN frame.rows}

\* a table without its row k
WithoutRow(frame, k) ==
    [columns |-> frame.columns,
     rows    |-> [i \in 1..(Len(frame.rows) - 1) |->
                    IF i < k THEN frame.rows[i] ELSE frame.rows[i + 1]]]

\* a table whose row k has the values of another reading
WithRow(frame, k, row) ==
    [columns |-> frame.columns,
     rows    |-> [frame.rows EXCEPT ![k] = ("timestamp" :> @.timestamp) @@ row]]

\* a table with one more reading at its end
WithLastRow(frame, row) ==
    [columns |-> frame.columns,
     rows    |-> Append(frame.rows,
                        ("timestamp" :> isoformat(1438 + Len(frame.rows) * 300)) @@ row)]

\* the tables that differ from a table in one reading of another subject
\* than who: one removed, one changed, or one added
OtherSubjectVariants(frame, who) ==
    {WithoutRow(frame, k) : k \in {i \in DOMAIN frame.rows : frame.rows[i].person_id # who}}
    \cup {WithRow(frame, k, row) :
             k \in {i \in DOMAIN frame.rows : frame.rows[i].person_id # who},
             row \in {r \in SampleRows : r.person_id # who}}
    \cup {WithLastRow(frame, row) : row \in {r \in SampleRows : r.person_id # who}}

\* the lines of a data context that are about a subject
LinesOf(context, who) ==
    {context.per_person[i] :
        i \in {j \in DOMAIN context.per_person : context.per_person[j].person = who}}

\* what a report of analyze_data_statistics says of the metrics: its
\* aggregates and its anomaly counters
AggregatesOf(report) ==
    [heart_rate |-> report.heart_rate, spo2 |-> report.spo2,
     temperature |-> report.temperature, blood_pressure |-> report.blood_pressure,
     stress_level |-> report.stress_level, total_steps |-> report.total_steps,
     anomalies |-> report.anomalies, total_anomalies |-> report.total_anomalies]

\* C19: the report obtained for a subject depends only on that subject's
\* readings: whatever statistics call was made on a table with readings of
\* the subject, the same call on a table in which a reading of another
\* subject was changed, added or removed gives the subject the same
\* aggregates and the same anomaly counters (no cross-subject aggregation).
C19_SubjectReportIsolated ==
    (df.columns = TableColumns /\ result.raised = "none" /\ Len(result.value) = 1) =>
        \A who \in Subjects(df) : \A other \in OtherSubjectVariants(df, who) :
            /\ result.op = "analyze_data_statistics" =>
                  AggregatesOf(analyze_data_statistics(other).value[1])
                      = AggregatesOf(result.value[1])
            /\ (result.op = "get_patient_context" /\ result.patient_id = who) =>
                  get_patient_context(other, who).value = result.value
            /\ result.op = "get_data_context" =>
                  /\ LinesOf(get_data_context(other).value[1], who)
                        = LinesOf(result.value[1], who)
                  /\ get_data_context(other).value[1].overall = result.value[1].overall

-----------------------------------------------------------------------------
(* Properties of _select_anomaly (checked under SpecReading) *)

\* the weight of the i-th configured profile, and the sum of the weights
WeightOf(i) == anomaly_types[AnomalyNames[i]].probability

TotalWeight == SeqSum([i \in DOMAIN AnomalyNames |-> WeightOf(i)])

\* the sum of the weights of the profiles before the i-th
WeightBefore(i) == SeqSum([j \in 1..(i - 1) |-> WeightOf(j)])

\* the profile selected from each state of the random source; random()
\* takes each of its RngModulus values from exactly one of them
SelectedFrom == [s \in 0..(RngModulus - 1) |-> SelectAnomaly(s).val]

\* of the RngModulus equally likely values of random(), the number that
\* select each profile
SelectionCount ==
    [name \in AnomalySet |->
        Cardinality({s \in 0..(RngModulus - 1) : SelectedFrom[s] = name})]

\* the last call was not forced and its 15% trial made the reading anomalous
UnforcedAnomaly ==
    /\ calls > 0
    /\ call.force_anomaly = None
    /\ call.is_anomaly

\* C20: when a non-forced reading is anomalous, its profile is drawn by
\* weighted random selection among all configured profiles: profile i is the
\* one selected exactly when the uniform draw random() falls in an interval
\* of length weight_i / sum of the weights (the weights are relative, their
\* sum is not 1), and so, over the equally likely values of the draw, the
\* frequency of each profile is weight_i / sum of the weights to within one
\* value of the draw.
C20_WeightedSelection ==
    /\ UnforcedAnomaly =>
          \E i \in DOMAIN AnomalyNames :
              /\ call.anomaly_type = AnomalyNames[i]
              /\ WeightBefore(i) * RngModulus
                    <= RngNext(RngNext(call.rng)) * TotalWeight
              /\ RngNext(RngNext(call.rng)) * TotalWeight
                    < (WeightBefore(i) + WeightOf(i)) * RngModulus
    /\ \A i \in DOMAIN AnomalyNames :
          /\ SelectionCount[AnomalyNames[i]] * TotalWeight
                > RngModulus * WeightOf(i) - TotalWeight
          /\ SelectionCount[AnomalyNames[i]] * TotalWeight
                < RngModulus * WeightOf(i) + TotalWeight

\* a non-forced call whose trial succeeded and that applied a profile other
\* than the first configured one, the weights not summing to 1 (100
\* hundredths)
C20_Witness ==
    /\ UnforcedAnomaly
    /\ Len(returned) = 1
    /\ call.anomaly_type \in AnomalySet \ {AnomalyNames[1]}
    /\ TotalWeight # 100

-----------------------------------------------------------------------------
(* Properties of the remote push in main (checked under SpecMain) *)

\* the post_health_reading calls that raised SupabaseError
FailedPushes == {k \in DOMAIN posted : posted[k].outcome = "SupabaseError"}

\* C21: in main, once a post_health_reading call raised SupabaseError no
\* further post_health_reading call is made in that run; up to the first
\* failure every generated reading is pushed exactly once, in generation
\* order, for the patient given.
C21_NoPushAfterFailure ==
    /\ \A k \in FailedPushes : k = Len(posted)
    /\ Len(posted) <= Len(all_readings)
    /\ \A k \in DOMAIN posted :
          /\ posted[k].patient_id = patient_id
          /\ posted[k].payload = Payload(all_readings[k])
    /\ (push_to_supabase /\ Truthy(patient_id)) => Len(posted) = Len(all_readings)
    /\ (FailedPushes = {} /\ Len(posted) < Len(all_readings)) => posted = <<>>

\* main has finished; its third push raised SupabaseError and the 21
\* readings generated after it were not pushed
C21_Witness ==
    /\ pc = "done"
    /\ FailedPushes = {3}
    /\ Len(posted) = 3
    /\ Len(all_readings) = 24
    /\ posted[1].outcome = "ok"

\* the batch main builds from a random state with the clock at clock: the
\* series of each person, tagged, one after the other
RECURSIVE BatchFrom(_, _, _, _)
BatchFrom(batch, series, clock, p) ==
    IF p > Len(people) THEN batch
    ELSE BatchFrom(batch \o [k \in DOMAIN series.readings |->
                                ("person_id" :> people[p]) @@ series.readings[k]],
                   generate_time_series(series.state, clock, 24 * 60, 5 * 60),
                   clock, p + 1)

\* the batch of a main that starts from seed s
BatchOfSeed(s, clock) ==
    BatchFrom(<<>>, generate_time_series(RandomSeed(s), clock, 24 * 60, 5 * 60),
              clock, 1)

\* C22: local data is kept for every pattern of SupabaseError failures of
\* the push (none, the first push, any later push): main gets to the end,
\* and what it saves to the JSON and the CSV file is the complete list of the
\* readings of all six subjects, every subject's full series in subject
\* order, the same list as a run without any push.
C22_LocalDataKept ==
    /\ pc = "crashed" => posted[Len(posted)].outcome = "RequestException"
    /\ pc = "done" =>
          /\ \E s \in 0..MaxSeriesSeed : all_readings = BatchOfSeed(s, now)
          /\ files.json = <<all_readings>>
          /\ Len(files.csv) = 1
          /\ Len(files.csv[1].rows) = Len(all_readings)
          /\ \A k \in DOMAIN all_readings :
                \A c \in DOMAIN files.csv[1].fieldnames :
                    files.csv[1].rows[k][c] = all_readings[k][files.csv[1].fieldnames[c]]
          /\ {files.csv[1].fieldnames[c] : c \in DOMAIN files.csv[1].fieldnames}
                = DOMAIN all_readings[1]

\* main has finished and saved 24 readings although its first push raised
\* SupabaseError
C22_Witness ==
    /\ pc = "done"
    /\ FailedPushes = {1}
    /\ Len(files.json) = 1
    /\ Len(files.json[1]) = 24
    /\ files.json[1][24].person_id = "Person_6"

-----------------------------------------------------------------------------
(* Agents/upload_medical_documents.py: MedicalDocumentProcessor.           *)
(* A text is a sequence of characters; a path under storage_dir is the     *)
(* pair <<patient directory, file name without ".txt">>.                   *)

\* the most documents one registry holds
MaxDocuments == 2

\* the last instant of the wall clock, in half seconds
MaxInstant == 3

\* the wall clock has a finer resolution than the second strftime keeps
TicksPerSecond == 2

\* datetime.strftime('%Y%m%d_%H%M%S'): day, hour, minute and second; what is
\* below the second is dropped
strftime(t) ==
    <<(t \div TicksPerSecond) \div 86400,
      ((t \div TicksPerSecond) % 86400) \div 3600,
      ((t \div TicksPerSecond) % 3600) \div 60,
      (t \div TicksPerSecond) % 60>>

\* datetime.isoformat() of a clock reading: the fields of strftime and the
\* fraction of the second
isoformat_us(t) == strftime(t) \o <<t % TicksPerSecond>>

\* str.lower() on the strings used
lower(text) ==
    CASE text = ".PDF" -> ".pdf"
      [] text = ".PNG" -> ".png"
      [] text = "EXIT" -> "exit"
      [] text = "New" -> "new"
      [] text = "Heart rate?" -> "heart rate?"
      [] OTHER -> text

\* the length after which text_preview is cut
PreviewLength == 200

\* extracted_text[:200] + '...' if len(extracted_text) > 200 else extracted_text
text_preview(text) ==
    IF Len(text) > PreviewLength
    THEN SubSeq(text, 1, PreviewLength) \o <<".", ".", ".">>
    ELSE text

\* f"{document_type}_{timestamp}"
doc_id(document_type, t) == <<document_type, strftime(t)>>

\* os.path.join(patient_dir, f"{doc_id}.txt")
text_file(patient, id) == <<patient, id>>

\* self.records.get(patient_id, [])
get_patient_documents(registry, patient) ==
    IF patient \in DOMAIN registry THEN registry[patient] ELSE <<>>

\* upload_document(file_path, patient_id, document_type) with the clock at
\* t: the registry and the text files it leaves, and what it returns.  A
\* text file that is already there is opened with 'w' and written over.
upload_document(registry, stored, file, patient, document_type, t) ==
    IF ~file.exists
    THEN [registry |-> registry, stored |-> stored,
          value |-> [status |-> "error", message |-> "File not found"]]
    ELSE IF lower(file.ext) \notin {".pdf", ".png", ".jpg", ".jpeg", ".tiff", ".bmp"}
    THEN [registry |-> registry, stored |-> stored,
          value |-> [status |-> "error", message |-> "Unsupported file type"]]
    ELSE [registry |->
             (patient :> Append(get_patient_documents(registry, patient),
                   [document_id |-> doc_id(document_type, t),
                    document_type |-> document_type,
                    original_file |-> file.name,
                    upload_date |-> isoformat_us(t),
                    text_file |-> text_file(patient, doc_id(document_type, t)),
                    text_preview |-> text_preview(file.text)])) @@ registry,
          stored |->
             (text_file(patient, doc_id(document_type, t)) :>
                   [patient_id |-> patient,
                    document_type |-> document_type,
                    upload_date |-> isoformat_us(t),
                    original_file |-> file.name,
                    text |-> file.text]) @@ stored,
          value |-> [status |-> "success",
                     document_id |-> doc_id(document_type, t),
                     patient_id |-> patient,
                     text_file |-> text_file(patient, doc_id(document_type, t)),
                     extracted_text |-> file.text]]

\* the first entry of a list of documents with the id given, 0 if none
RECURSIVE FirstWithId(_, _, _)
FirstWithId(docs, id, k) ==
    IF k > Len(docs) THEN 0
    ELSE IF docs[k].document_id = id THEN k
    ELSE FirstWithId(docs, id, k + 1)

\* get_document_text(patient_id, document_id): the content of the text file
\* of the first entry with that id, None if there is none
get_document_text(registry, stored, patient, id) ==
    IF FirstWithId(get_patient_documents(registry, patient), id, 1) = 0
    THEN <<>>
    ELSE <<stored[get_patient_documents(registry, patient)[
                FirstWithId(get_patient_documents(registry, patient), id, 1)].text_file]>>

-----------------------------------------------------------------------------
(* The document store under uploads at any instant of the clock.           *)

\* the text a scan of more than PreviewLength characters gives
LongText == [k \in 1..(PreviewLength + 1) |-> "x"]

\* the files given to upload_document: what os.path.exists says, the
\* extension, the base name and the text OCR gives
UploadFiles ==
    { [name |-> "report.PDF", exists |-> TRUE, ext |-> ".PDF", text |-> <<"H", "b">>],
      [name |-> "scan.png", exists |-> TRUE, ext |-> ".png", text |-> LongText],
      [name |-> "notes.docx", exists |-> TRUE, ext |-> ".docx", text |-> <<>>],
      [name |-> "gone.pdf", exists |-> FALSE, ext |-> ".pdf", text |-> <<>>] }

DocumentPatients == {"Person_1", "Person_2"}

DocumentTypes == {"medical_report", "lab_result"}

\* the number of entries of a registry
RECURSIVE CountEntries(_, _)
CountEntries(registry, patients) ==
    IF patients = {} THEN 0
    ELSE Len(registry[CHOOSE p \in patients : TRUE])
            + CountEntries(registry, patients \ {CHOOSE p \in patients : TRUE})

InitDocs ==
    /\ rng = 0
    /\ now = 1438
    /\ calls = 0
    /\ call = NoCall
    /\ returned = <<>>
    /\ runs = <<>>
    /\ MainIdle
    /\ StatsIdle
    /\ DocsIdle
    /\ DoctorIdle
    /\ ChatIdle

\* time passes on the wall clock
ClockTick ==
    /\ instant < MaxInstant
    /\ instant' = instant + 1
    /\ UNCHANGED <<records, text_files, registry_file, upload_result>>
    /\ UNCHANGED programVars
    /\ UNCHANGED <<doctorVars, chatVars>>

\* processor.upload_document(file, patient, document_type)
Upload(file, patient, document_type) ==
    /\ CountEntries(records, DOMAIN records) < MaxDocuments
    /\ \E r \in {upload_document(records, text_files, file, patient,
                                 document_type, instant)} :
          /\ records' = r.registry
          /\ text_files' = r.stored
          /\ registry_file' = IF r.value.status = "success" THEN r.registry
                              ELSE registry_file
          /\ upload_result' = <<r.value>>
    /\ UNCHANGED instant
    /\ UNCHANGED programVars
    /\ UNCHANGED <<doctorVars, chatVars>>

NextDocs ==
    \/ ClockTick
    \/ \E file \in UploadFiles, patient \in DocumentPatients,
          document_type \in DocumentTypes :
            Upload(file, patient, document_type)

SpecDocs == InitDocs /\ [][NextDocs]_vars

\* C23: the document ids of a patient's registry are unique, and no
\* successful upload overwrites an earlier text file: every entry of the
\* registry has an id no other entry of that patient has, and
\* get_document_text of the entry's id gives the text file its own upload
\* wrote.
C23_DocumentIdsUnique ==
    \A p \in DOMAIN records :
        \A k \in DOMAIN records[p] :
            /\ \A j \in DOMAIN records[p] :
                  records[p][j].document_id = records[p][k].document_id => j = k
            /\ get_document_text(records, text_files, p, records[p][k].document_id)
                  = << [patient_id |-> p,
                        document_type |-> records[p][k].document_type,
                        upload_date |-> records[p][k].upload_date,
                        original_file |-> records[p][k].original_file,
                        text |-> text_files[records[p][k].text_file].text] >>
            /\ records[p][k].text_preview
                  = text_preview(text_files[records[p][k].text_file].text)

\* two documents of one type were uploaded for one patient within a second
C23_SameSecond ==
    \E p \in DOMAIN records :
        /\ Len(records[p]) = 2
        /\ upload_result # <<>>
        /\ upload_result[1].status = "success"
        /\ records[p][1].document_type = records[p][2].document_type
        /\ records[p][1].upload_date # records[p][2].upload_date
        /\ records[p][1].original_file # records[p][2].original_file
        /\ records[p][1].document_id = records[p][2].document_id

-----------------------------------------------------------------------------
(* Agents/doctor_chat.py: access by code and the menu loop of main.        *)
(* A stored expires_at is none (<<>>) or <<text>>, a text being described  *)
(* by its form and the instant it denotes: "naive" is an ISO string        *)
(* without a UTC offset, "aware" one with an offset, "malformed" a string  *)
(* fromisoformat rejects.                                                  *)

\* datetime.fromisoformat(text): ValueError for a malformed text
datetime_fromisoformat(text) ==
    IF text.form = "malformed"
    THEN [raised |-> "ValueError", aware |-> FALSE, at |-> 0]
    ELSE [raised |-> "none", aware |-> text.form = "aware", at |-> text.at]

\* datetime.now() > exp: now() is naive, and comparing it with an aware
\* datetime raises TypeError
NowIsAfter(clock, exp) ==
    IF exp.aware THEN [raised |-> "TypeError", value |-> FALSE]
    ELSE [raised |-> "none", value |-> clock > exp.at]

\* get_patient_from_code(access_code, patient_codes) with the clock at
\* clock: the pair (patient id, error).  Every exception of the expiry check
\* is caught and passed over.
get_patient_from_code(access_code, codes, clock) ==
    IF access_code \notin DOMAIN codes
    THEN <<None, "Invalid access code">>
    ELSE IF /\ codes[access_code].expires_at # <<>>
            /\ datetime_fromisoformat(codes[access_code].expires_at[1]).raised = "none"
            /\ NowIsAfter(clock,
                  datetime_fromisoformat(codes[access_code].expires_at[1])).raised = "none"
            /\ NowIsAfter(clock,
                  datetime_fromisoformat(codes[access_code].expires_at[1])).value
    THEN <<None, "Access code has expired">>
    ELSE <<codes[access_code].patient_id, None>>

\* pd.DataFrame(health_data) with the column person_id set to the patient
SupabaseFrame(health_data, patient) ==
    [columns |-> DOMAIN health_data[1] \cup {"person_id"},
     rows    |-> [k \in DOMAIN health_data |->
                    ("person_id" :> patient) @@ health_data[k]]]

\* how an iteration of option 1 ends
Scanned(code, supabase, raised, verified, patient, code_result, context) ==
    [choice |-> "1", access_code |-> code, use_supabase |-> supabase,
     raised |-> raised, verified |-> verified, patient_id |-> patient,
     code_result |-> code_result, checked_at |-> 0, context |-> context,
     consultation |-> IF raised = "none" /\ context # <<>>
                      THEN <<[patient_context |-> context[1], patient_id |-> patient]>>
                      ELSE <<>>]

\* the end of option 1 once the patient is known: the context is built from
\* the table given (none: no data is available) and, if there is one,
\* doctor_chat is called
ScanContext(code, supabase, patient, code_result, frame) ==
    IF frame = <<>>
    THEN Scanned(code, supabase, "none", TRUE, patient, code_result, <<>>)
    ELSE Scanned(code, supabase, get_patient_context(frame[1], patient).raised,
                 TRUE, patient, code_result,
                 get_patient_context(frame[1], patient).value)

\* option 1 with verification by Supabase (lines 249-285): verify and health
\* are what verify_access_code and get_patient_health_data do
SupabaseScan(code, verify, health, frame) ==
    IF verify.raised = "SupabaseError"
    THEN Scanned(code, TRUE, "none", FALSE, None, <<>>, <<>>)
    ELSE IF verify.raised # "none"
    THEN Scanned(code, TRUE, verify.raised, FALSE, None, <<>>, <<>>)
    ELSE IF verify.patient = <<>> \/ ~Truthy(verify.patient[1].id)
    THEN Scanned(code, TRUE, "none", FALSE, None, <<>>, <<>>)
    ELSE IF health.raised \notin {"none", "SupabaseError"}
    THEN Scanned(code, TRUE, health.raised, TRUE, verify.patient[1].id, <<>>, <<>>)
    ELSE IF health.raised = "none" /\ health.healthData # <<>>
    THEN ScanContext(code, TRUE, verify.patient[1].id, <<>>,
                     <<SupabaseFrame(health.healthData, verify.patient[1].id)>>)
    ELSE ScanContext(code, TRUE, verify.patient[1].id, <<>>, frame)

\* option 1 with the local mapping (lines 287-308)
LegacyScan(code, codes, frame, clock) ==
    IF codes = <<>> \/ codes = <<<<>>>>
    THEN Scanned(code, FALSE, "none", FALSE, None, <<>>, <<>>)
    ELSE IF get_patient_from_code(code, codes[1], clock)[2] # None
    THEN [Scanned(code, FALSE, "none", FALSE,
                  get_patient_from_code(code, codes[1], clock)[1],
                  get_patient_from_code(code, codes[1], clock), <<>>)
             EXCEPT !.checked_at = clock]
    ELSE [ScanContext(code, FALSE, get_patient_from_code(code, codes[1], clock)[1],
                      get_patient_from_code(code, codes[1], clock), frame)
             EXCEPT !.checked_at = clock]

\* option 2 (lines 320-351) reads patient_codes.items() and parses every
\* expires_at without a guard
ListPatientsRaises(codes, clock) ==
    IF codes = <<>> THEN "AttributeError"
    ELSE IF \E c \in DOMAIN codes[1] : codes[1][c].expires_at = <<>>
    THEN "TypeError"
    ELSE IF \E c \in DOMAIN codes[1] :
               datetime_fromisoformat(codes[1][c].expires_at[1]).raised # "none"
    THEN "ValueError"
    ELSE IF \E c \in DOMAIN codes[1] :
               NowIsAfter(clock,
                   datetime_fromisoformat(codes[1][c].expires_at[1])).raised # "none"
    THEN "TypeError"
    ELSE "none"

-----------------------------------------------------------------------------
(* doctor_chat.main at its menu, with no document uploaded.                *)

\* the content of patient_access_codes.json
Expiry(form, at) == <<[form |-> form, at |-> at]>>

CodeFile ==
    [c \in {"AAA111", "BBB222", "LOCAL1", "ZZZ999", "MAL000", "CCC333"} |->
        CASE c = "AAA111" -> [patient_id |-> "Person_1", expires_at |-> Expiry("naive", 1437)]
          [] c = "BBB222" -> [patient_id |-> "Person_1", expires_at |-> Expiry("naive", 1439)]
          [] c = "LOCAL1" -> [patient_id |-> "Person_1", expires_at |-> <<>>]
          [] c = "ZZZ999" -> [patient_id |-> "Person_1", expires_at |-> Expiry("aware", 1437)]
          [] c = "MAL000" -> [patient_id |-> "Person_1", expires_at |-> Expiry("malformed", 1437)]
          [] c = "CCC333" -> [patient_id |-> "Person_3", expires_at |-> Expiry("naive", 5000)]]

\* what load_patient_codes() gives: None, an empty mapping, a mapping of
\* codes with a parsable expiry, or the mapping CodeFile
PatientCodeFiles ==
    {<<>>, <<<<>>>>, <<CodeFile>>,
     <<[c \in {"AAA111", "BBB222", "CCC333"} |-> CodeFile[c]]>>}

AccessCodes == DOMAIN CodeFile \cup {"NOPE00"}

\* the local table: two readings of Person_1
DoctorTable ==
    [columns |-> TableColumns,
     rows |-> << ("timestamp" :> isoformat(1438))
                    @@ Row("Person_1", 70, <<98, 0>>, <<36, 6>>, 120, 80, 50, 3, <<7, 5>>),
                 ("timestamp" :> isoformat(1738))
                    @@ Row("Person_1", 125, <<98, 0>>, <<36, 6>>, 120, 80, 50, 3, <<7, 5>>) >>]

\* smartwatch_data.csv: missing, the table, or the table without a column
LocalFrames == {<<>>, <<DoctorTable>>, <<WithoutColumn(DoctorTable, "sleep_hours")>>}

\* what verify_access_code does
VerifyOutcomes ==
    { [raised |-> "SupabaseError", patient |-> <<>>],
      [raised |-> "ConnectionError", patient |-> <<>>],
      [raised |-> "none", patient |-> <<>>],
      [raised |-> "none", patient |-> <<[id |-> "", name |-> "A"]>>],
      [raised |-> "none", patient |-> <<[id |-> "Person_1", name |-> "A"]>>],
      [raised |-> "none", patient |-> <<[id |-> "sb-7", name |-> "B"]>>] }

\* a reading as the backend returns it
HealthRow ==
    [c \in TableColumns \ {"person_id"} |-> DoctorTable.rows[1][c]]

\* what get_patient_health_data does
HealthOutcomes ==
    { [raised |-> "SupabaseError", healthData |-> <<>>],
      [raised |-> "ConnectionError", healthData |-> <<>>],
      [raised |-> "none", healthData |-> <<>>],
      [raised |-> "none", healthData |-> <<HealthRow>>],
      [raised |-> "none",
       healthData |-> <<[c \in DOMAIN HealthRow \ {"sleep_hours"} |-> HealthRow[c]]>>] }

InitDoctor ==
    /\ rng = 0
    /\ now \in Clock
    /\ calls = 0
    /\ call = NoCall
    /\ returned = <<>>
    /\ runs = <<>>
    /\ MainIdle
    /\ StatsIdle
    /\ DocsIdle
    /\ patient_codes \in PatientCodeFiles
    /\ local_df \in LocalFrames
    /\ menu = "menu"
    /\ iteration = NoIteration
    /\ ChatIdle

\* what follows an iteration of option 1: the consultation, the menu, or the
\* end of main by an exception nothing catches
AfterScan(r) ==
    IF r.raised # "none" THEN "crashed"
    ELSE IF r.consultation # <<>> THEN "consultation"
    ELSE "menu"

\* option 1 with verification by Supabase
ScanWithSupabase(code, verify, health) ==
    /\ menu = "menu"
    /\ \E r \in {SupabaseScan(code, verify, health, local_df)} :
          /\ iteration' = r
          /\ menu' = AfterScan(r)
    /\ UNCHANGED <<patient_codes, local_df>>
    /\ UNCHANGED programVars
    /\ UNCHANGED <<docVars, chatVars>>

\* option 1 with the local mapping
ScanLegacy(code) ==
    /\ menu = "menu"
    /\ \E r \in {LegacyScan(code, patient_codes, local_df, now)} :
          /\ iteration' = r
          /\ menu' = AfterScan(r)
    /\ UNCHANGED <<patient_codes, local_df>>
    /\ UNCHANGED programVars
    /\ UNCHANGED <<docVars, chatVars>>

\* doctor_chat returns ('new' or None): back to the menu
ConsultationEnds ==
    /\ menu = "consultation"
    /\ menu' = "menu"
    /\ UNCHANGED <<patient_codes, local_df, iteration>>
    /\ UNCHANGED programVars
    /\ UNCHANGED <<docVars, chatVars>>

\* option 2
ListPatients ==
    /\ menu = "menu"
    /\ iteration' = [NoIteration EXCEPT !.choice = "2",
                        !.raised = ListPatientsRaises(patient_codes, now)]
    /\ menu' = IF ListPatientsRaises(patient_codes, now) = "none" THEN "menu"
               ELSE "crashed"
    /\ UNCHANGED <<patient_codes, local_df>>
    /\ UNCHANGED programVars
    /\ UNCHANGED <<docVars, chatVars>>

\* option 4 and an invalid option only print
OtherOption(choice) ==
    /\ menu = "menu"
    /\ iteration' = [NoIteration EXCEPT !.choice = choice]
    /\ menu' = "menu"
    /\ UNCHANGED <<patient_codes, local_df>>
    /\ UNCHANGED programVars
    /\ UNCHANGED <<docVars, chatVars>>

\* option 5
ExitMenu ==
    /\ menu = "menu"
    /\ iteration' = [NoIteration EXCEPT !.choice = "5"]
    /\ menu' = "exited"
    /\ UNCHANGED <<patient_codes, local_df>>
    /\ UNCHANGED programVars
    /\ UNCHANGED <<docVars, chatVars>>

\* time passes between two inputs
DoctorClockTick ==
    /\ menu \in {"menu", "consultation"}
    /\ now < 1438 + MaxClock
    /\ now' = now + 1
    /\ UNCHANGED <<rng, calls, call, returned, runs>>
    /\ UNCHANGED <<mainVars, statsVars>>
    /\ UNCHANGED agentVars

NextDoctor ==
    \/ \E code \in AccessCodes, verify \in VerifyOutcomes, health \in HealthOutcomes :
          ScanWithSupabase(code, verify, health)
    \/ \E code \in AccessCodes : ScanLegacy(code)
    \/ ConsultationEnds
    \/ ListPatients
    \/ \E choice \in {"4", "x"} : OtherOption(choice)
    \/ ExitMenu
    \/ DoctorClockTick

SpecDoctor == InitDoctor /\ [][NextDoctor]_vars

\* the last iteration called get_patient_from_code
CodeChecked == iteration.choice = "1" /\ iteration.code_result # <<>>

\* the expiry stored for a code denotes an instant before the clock
ExpiryInPast(codes, code, clock) ==
    /\ codes[code].expires_at # <<>>
    /\ codes[code].expires_at[1].form \in {"naive", "aware"}
    /\ codes[code].expires_at[1].at < clock

\* C24: get_patient_from_code validates expiry: it returns a patient id
\* only for an access code that is in the local mapping and whose stored
\* expires_at is not in the past; for an unknown code it returns
\* (None, 'Invalid access code') and for a code past its expiry
\* (None, 'Access code has expired').
C24_ExpiryValidated ==
    CodeChecked =>
        /\ iteration.code_result[1] # None =>
              /\ iteration.access_code \in DOMAIN patient_codes[1]
              /\ ~ExpiryInPast(patient_codes[1], iteration.access_code,
                             iteration.checked_at)
        /\ iteration.access_code \notin DOMAIN patient_codes[1] =>
              iteration.code_result = <<None, "Invalid access code">>
        /\ (/\ iteration.access_code \in DOMAIN patient_codes[1]
            /\ ExpiryInPast(patient_codes[1], iteration.access_code,
                             iteration.checked_at)) =>
              iteration.code_result = <<None, "Access code has expired">>

\* an iteration of option 1 failed: the verification gave no patient, no
\* data was available, or no context was built
ScanFailed ==
    /\ iteration.choice = "1"
    /\ \/ ~iteration.verified
       \/ iteration.context = <<>>

\* C28: in the menu loop of doctor_chat.main a consultation for a patient
\* starts only after an access code for that patient was verified in the
\* same iteration and a non-empty context was built; after a failed
\* verification, missing data or a missing context the loop is back at the
\* menu and no consultation was started.
C28_ConsultationOnlyAfterVerification ==
    /\ iteration.consultation # <<>> =>
          /\ iteration.choice = "1"
          /\ iteration.verified
          /\ Truthy(iteration.patient_id)
          /\ iteration.context # <<>>
          /\ iteration.consultation[1].patient_id = iteration.patient_id
          /\ iteration.consultation[1].patient_context.patient = iteration.patient_id
    /\ menu = "consultation" => iteration.consultation # <<>>
    /\ ScanFailed =>
          /\ iteration.consultation = <<>>
          /\ menu = "menu"

-----------------------------------------------------------------------------
(* Agents/chat_health_data.py chat_loop and Agents/doctor_chat.py          *)
(* doctor_chat: the two chat loops.  They differ in the words that end     *)
(* them and in the labels of the prompt.                                   *)

\* the most lines a chat loop reads
MaxInputs == 4

\* str.strip() on the lines used
strip(text) ==
    CASE text = "  " -> ""
      [] text = " Heart rate? " -> "Heart rate?"
      [] text = " EXIT" -> "EXIT"
      [] OTHER -> text

\* the words that end the loop
ExitWords(loop) ==
    IF loop = "chat_loop" THEN {"exit", "quit", "bye", "goodbye"}
    ELSE {"exit", "quit"}

\* a list's last two elements: history[-2:]
LastTwo(history) ==
    SubSeq(history, IF Len(history) > 2 THEN Len(history) - 1 ELSE 1, Len(history))

\* the speaker's label in the prompt
Speaker(loop) == IF loop = "chat_loop" THEN "User" ELSE "Doctor"

\* full_prompt: the context, the recent exchanges under their heading if
\* there are any, and the question
full_prompt(loop, context, recent, user_input) ==
    [context |-> context,
     heading |-> IF recent = <<>> THEN ""
                 ELSE IF loop = "chat_loop" THEN "Recent chat:"
                 ELSE "Recent conversation:",
     conversation_text |->
         [k \in DOMAIN recent |->
             <<Speaker(loop), recent[k].user, "AI", recent[k].assistant>>],
     question |-> <<Speaker(loop), user_input, "AI">>]

\* a turn that sends the whole history with the question
chat_turn_WholeHistory(loop, context, history, line, response) ==
    IF line.raised = "KeyboardInterrupt"
    THEN [history |-> history, prompt |-> <<>>, then |-> "break"]
    ELSE IF line.raised # "none"
    THEN [history |-> history, prompt |-> <<>>, then |-> "loop"]
    ELSE IF strip(line.text) = ""
    THEN [history |-> history, prompt |-> <<>>, then |-> "loop"]
    ELSE IF lower(strip(line.text)) \in
               (IF loop = "chat_loop" THEN {"exit", "quit", "bye", "goodbye"}
                ELSE {"exit", "quit"})
    THEN [history |-> history, prompt |-> <<>>, then |-> "break"]
    ELSE IF loop = "doctor_chat" /\ lower(strip(line.text)) = "new"
    THEN [history |-> history, prompt |-> <<>>, then |-> "new"]
    ELSE [history |-> Append(history, [user |-> strip(line.text),
                                       assistant |-> response]),
          prompt |-> << [context |-> context,
                         heading |-> IF history = <<>> THEN ""
                                     ELSE IF loop = "chat_loop" THEN "Recent chat:"
                                     ELSE "Recent conversation:",
                         conversation_text |->
                             [k \in DOMAIN history |->
                                 <<IF loop = "chat_loop" THEN "User" ELSE "Doctor",
                                   history[k].user, "AI", history[k].assistant>>],
                         question |-> <<IF loop = "chat_loop" THEN "User" ELSE "Doctor",
                                        strip(line.text), "AI">>] >>,
          then |-> "loop"]

\* one turn of the while loop: line is what input() does, response what
\* query_llama3 returns if it is called.  The history after the turn, the
\* prompt sent if one was, and how the loop goes on.
chat_turn(loop, context, history, line, response) ==
    IF line.raised = "KeyboardInterrupt"
    THEN [history |-> history, prompt |-> <<>>, then |-> "break"]
    ELSE IF line.raised # "none"
    THEN [history |-> history, prompt |-> <<>>, then |-> "loop"]
    ELSE IF strip(line.text) = ""
    THEN [history |-> history, prompt |-> <<>>, then |-> "loop"]
    ELSE IF lower(strip(line.text)) \in ExitWords(loop)
    THEN [history |-> history, prompt |-> <<>>, then |-> "break"]
    ELSE IF loop = "doctor_chat" /\ lower(strip(line.text)) = "new"
    THEN [history |-> history, prompt |-> <<>>, then |-> "new"]
    ELSE [history |-> Append(history, [user |-> strip(line.text),
                                       assistant |-> response]),
          prompt |-> <<full_prompt(loop, context, LastTwo(history),
                                   strip(line.text))>>,
          then |-> "loop"]

-----------------------------------------------------------------------------
(* A chat loop under the lines of its user.                                *)

ChatLoops == {"chat_loop", "doctor_chat"}

\* what input() does: a line, EOFError at the end of the input, or
\* KeyboardInterrupt
Lines ==
    {[raised |-> "none", text |-> t] :
        t \in {"", "  ", " Heart rate? ", " EXIT", "quit", "New", "bye"}}
    \cup {[raised |-> "EOFError", text |-> ""],
          [raised |-> "KeyboardInterrupt", text |-> ""]}

\* what query_llama3 returns: the model's answer or an error text
Responses == {"72 bpm on average", "Error: Ollama not found"}

InitChat ==
    /\ rng = 0
    /\ now = 1438
    /\ calls = 0
    /\ call = NoCall
    /\ returned = <<>>
    /\ runs = <<>>
    /\ MainIdle
    /\ StatsIdle
    /\ DocsIdle
    /\ DoctorIdle
    /\ chat \in ChatLoops
    /\ chat_pc = "loop"
    /\ conversation_history = <<>>
    /\ typed = <<>>
    /\ asked = <<>>

\* one turn of the loop
ChatTurn(line, response) ==
    /\ chat_pc = "loop"
    /\ Len(typed) < MaxInputs
    /\ \E r \in {chat_turn(chat, "context", conversation_history, line, response)} :
          /\ conversation_history' = r.history
          /\ asked' = asked \o r.prompt
          /\ chat_pc' = r.then
          /\ typed' = Append(typed, [line |-> line,
                                     answered |-> r.prompt # <<>>])
    /\ UNCHANGED chat
    /\ UNCHANGED programVars
    /\ UNCHANGED <<docVars, doctorVars>>

NextChat ==
    \E line \in Lines, response \in Responses : ChatTurn(line, response)

SpecChat == InitChat /\ [][NextChat]_vars

\* a line that is neither empty nor a command of the loop
IsQuestion(loop, line) ==
    /\ line.raised = "none"
    /\ line.text \notin {"", "  "}
    /\ line.text \notin {" EXIT", "quit"}
    /\ loop = "chat_loop" => line.text # "bye"
    /\ loop = "doctor_chat" => line.text # "New"

\* the turns that were answered, in order
Questions == SelectSeq(typed, LAMBDA t : IsQuestion(chat, t.line))

\* C25: in chat_loop and doctor_chat the prompt sent for a question contains
\* at most the last two previous exchanges, in chronological order, and the
\* conversation history grows by exactly one entry for each non-empty,
\* non-command input that was answered and is unchanged by empty input and
\* by the commands of the loop (exit, quit, and new or bye): the history
\* has one entry per question typed, in order, each prompt was sent for one
\* of them, and the exchanges of the k-th prompt are the last ones before
\* the k-th question, two of them once there are two.
C25_PromptAndHistory ==
    /\ Len(conversation_history) = Len(Questions)
    /\ Len(asked) = Len(Questions)
    /\ \A k \in DOMAIN typed : typed[k].answered = IsQuestion(chat, typed[k].line)
    /\ \A k \in DOMAIN asked :
          /\ asked[k].question[2] = conversation_history[k].user
          /\ Len(asked[k].conversation_text) = (IF k > 2 THEN 2 ELSE k - 1)
          /\ \A j \in DOMAIN asked[k].conversation_text :
                /\ asked[k].conversation_text[j][2]
                      = conversation_history[k - 1 - Len(asked[k].conversation_text) + j].user
                /\ asked[k].conversation_text[j][4]
                      = conversation_history[k - 1 - Len(asked[k].conversation_text) + j].assistant

\* a fourth question was asked after three exchanges, the first two with
\* different answers: its prompt holds the second and the third exchange
C25_Witness ==
    /\ Len(asked) = 4
    /\ Len(conversation_history) = 4
    /\ conversation_history[1].assistant # conversation_history[2].assistant
    /\ Len(asked[4].conversation_text) = 2
    /\ asked[4].conversation_text[1][4] = conversation_history[2].assistant

-----------------------------------------------------------------------------
(* Generated readings under the detection rules: a reading, or a series of *)
(* two, is generated from any state of the random source, tagged and       *)
(* saved as main does, loaded as load_health_data does, and analysed.      *)

\* the states of the random source
RandomStates == 0..(RngModulus - 1)

\* pd.read_csv of a file save_to_csv wrote: the header gives the columns,
\* every line a row
read_csv(file) ==
    [columns |-> {file.fieldnames[c] : c \in DOMAIN file.fieldnames},
     rows |-> [k \in DOMAIN file.rows |->
                 [name \in {file.fieldnames[c] : c \in DOMAIN file.fieldnames} |->
                     file.rows[k][CHOOSE c \in DOMAIN file.fieldnames :
                                     file.fieldnames[c] = name]]]]

\* the table loaded from the CSV file of a list of readings of one person
LoadedFrom(rs) ==
    read_csv(save_to_csv([k \in DOMAIN rs |-> TagReading(rs[k], people[1])])[1])

InitDetect ==
    /\ rng \in RandomStates
    /\ now = 1438
    /\ calls = 0
    /\ call = NoCall
    /\ returned = <<>>
    /\ runs = <<>>
    /\ MainIdle
    /\ StatsIdle
    /\ AgentsIdle

\* generate_reading(force_anomaly=profile), and the reading saved and loaded
GenerateForced(profile) ==
    /\ calls = 0
    /\ runs = <<>>
    /\ \E r \in {generate_reading(rng, now, <<>>, profile)} :
           /\ rng' = r.state
           /\ call' = [timestamp |-> <<>>, force_anomaly |-> profile,
                       rng |-> rng, raised |-> r.raised,
                       is_anomaly |-> r.is_anomaly, anomaly_type |-> r.anomaly_type]
           /\ returned' = r.data
           /\ df' = LoadedFrom(r.data)
    /\ calls' = calls + 1
    /\ UNCHANGED <<now, runs, result, stats>>
    /\ UNCHANGED mainVars
    /\ UNCHANGED agentVars

\* generate_time_series(2, 1), and the series saved and loaded
GenerateSeries ==
    /\ calls = 0
    /\ runs = <<>>
    /\ \E r \in {generate_time_series(rng, now, 2, 1)} :
           /\ rng' = r.state
           /\ runs' = <<[seed |-> <<>>, duration_minutes |-> 2,
                         interval_minutes |-> 1, start_time |-> now,
                         raised |-> r.raised, readings |-> r.readings,
                         trace |-> r.trace, rng |-> rng]>>
           /\ df' = LoadedFrom(r.readings)
    /\ UNCHANGED <<now, calls, call, returned, result, stats>>
    /\ UNCHANGED mainVars
    /\ UNCHANGED agentVars

\* stats = analyze_data_statistics(df) on the table loaded
AnalyzeGenerated ==
    /\ df.rows # <<>>
    /\ result.op = "none"
    /\ \E r \in {analyze_data_statistics(df)} :
           /\ result' = [op |-> "analyze_data_statistics", patient_id |-> None,
                         raised |-> r.raised, value |-> r.value]
           /\ stats' = Append(stats, [raised |-> r.raised, value |-> r.value])
           /\ df' = r.df
    /\ UNCHANGED <<rng, now, calls, call, returned, runs>>
    /\ UNCHANGED mainVars
    /\ UNCHANGED agentVars

\* context = get_patient_context(df, 'Person_1') on the table loaded
ContextOfGenerated ==
    /\ df.rows # <<>>
    /\ result.op = "none"
    /\ \E r \in {get_patient_context(df, people[1])} :
           /\ result' = [op |-> "get_patient_context", patient_id |-> people[1],
                         raised |-> r.raised, value |-> r.value]
           /\ df' = r.df
    /\ UNCHANGED <<stats, rng, now, calls, call, returned, runs>>
    /\ UNCHANGED mainVars
    /\ UNCHANGED agentVars

NextDetect ==
    \/ \E profile \in AnomalySet : GenerateForced(profile)
    \/ GenerateSeries
    \/ AnalyzeGenerated
    \/ ContextOfGenerated

SpecDetect == InitDetect /\ [][NextDetect]_vars

\* what generate_reading decided for each reading of the table: for the
\* forced reading the call's own locals, for the series the decisions its
\* two calls took from the random state the series started on
Decisions ==
    IF runs = <<>>
    THEN [k \in DOMAIN df.rows |->
             [is_anomaly |-> call.is_anomaly, anomaly_type |-> call.anomaly_type]]
    ELSE [k \in DOMAIN df.rows |->
             IF k = 1
             THEN [is_anomaly |-> AnomalyDecision(runs[1].rng, None).is_anomaly,
                   anomaly_type |-> AnomalyDecision(runs[1].rng, None).anomaly_type]
             ELSE [is_anomaly |->
                      AnomalyDecision(
                          ReadingAfter(AnomalyDecision(runs[1].rng, None), now).state,
                          None).is_anomaly,
                   anomaly_type |->
                      AnomalyDecision(
                          ReadingAfter(AnomalyDecision(runs[1].rng, None), now).state,
                          None).anomaly_type]]

\* no reading of the table was generated under an anomaly
AllNormal == \A k \in DOMAIN Decisions : ~Decisions[k].is_anomaly

\* C26: a reading generated with no anomaly triggers none of the ten
\* detection rules, so a series of non-anomalous generated readings has
\* every rule counter and total_anomalies equal to 0, in the report of
\* analyze_data_statistics and in the context of get_patient_context.
C26_NormalReadingsTriggerNothing ==
    /\ \A k \in DOMAIN df.rows :
          ~Decisions[k].is_anomaly =>
              \A rule \in DetectionRules : ~RuleHolds(rule, df.rows[k])
    /\ (AllNormal /\ Analyzed) =>
          /\ \A rule \in DOMAIN result.value[1].anomalies :
                result.value[1].anomalies[rule] = 0
          /\ result.value[1].total_anomalies = 0
    /\ (AllNormal /\ ContextGiven) =>
          \A rule \in DetectionRules :
              result.value[1].anomalies[ContextKey(rule)] = 0

\* a series of two readings, both generated with no anomaly, the first with
\* a heart rate of 60, was analysed
C26_Witness ==
    /\ Analyzed
    /\ Len(df.rows) = 2
    /\ AllNormal
    /\ df.rows[1].heart_rate = Dec(60, 0)
    /\ result.value[1].total_readings = 2

\* the detection rule for the condition of a profile
ProfileRule(profile) ==
    CASE profile = "high_temperature" -> "high_temp"
      [] profile = "low_temperature"  -> "low_temp"
      [] OTHER                        -> profile

\* C27: every reading generated under an anomaly profile is caught by the
\* detection rule for the same condition: the rule's condition holds of the
\* reading, and the report of analyze_data_statistics and the context of
\* get_patient_context count it under that rule.
C27_ProfilesCaught ==
    \A k \in DOMAIN df.rows :
        (Decisions[k].is_anomaly /\ Decisions[k].anomaly_type \in AnomalySet) =>
            /\ RuleHolds(ProfileRule(Decisions[k].anomaly_type), df.rows[k])
            /\ Analyzed =>
                  /\ ProfileRule(Decisions[k].anomaly_type)
                        \in DOMAIN result.value[1].anomalies
                  /\ result.value[1].anomalies[ProfileRule(Decisions[k].anomaly_type)] >= 1
            /\ ContextGiven =>
                  result.value[1].anomalies[
                      ContextKey(ProfileRule(Decisions[k].anomaly_type))] >= 1

\* the conditions of the rules hold of every reading generated under a
\* profile other than high_heart_rate
C27_OtherProfilesMeetRule ==
    \A k \in DOMAIN df.rows :
        (/\ Decisions[k].is_anomaly
         /\ Decisions[k].anomaly_type \in AnomalySet \ {"high_heart_rate"}) =>
            RuleHolds(ProfileRule(Decisions[k].anomaly_type), df.rows[k])

=============================================================================
